---- MODULE Spec2Model ----
(***************************************************************************)
(* A model of the edge proxy worker of src/src/index.ts: the fixed-window  *)
(* rate limiter (checkRateLimit, clientKey), the target validator and SSRF *)
(* guard (getValidatedHttpsUrl, isBlockedHost) and the cache-aside fetch   *)
(* pipeline (handleFetch), with requests suspended at their awaits.        *)
(***************************************************************************)
EXTENDS Integers, Sequences, FiniteSets, TLC

VARIABLES
    now,                \* the reading Date.now() returns
    RATE_LIMIT_STORE,   \* the Map of index.ts:220: key -> {windowStartMs, count}
    limits,             \* <<maxRequests, windowSeconds>> the limiter is called with
    last,               \* observation of the latest checkRateLimit call
    hist,               \* observation per key: the window as the clock defines it
    recent,             \* observation per key: when its latest allowed calls were made
    cache,              \* caches.default: cache key (target URL) -> stored response
    req,                \* the /fetch requests in flight, each at its await
    started,            \* the number of /fetch requests received
    prev,               \* observation: the outcome of the request answered last
    guardIn,            \* a hostname handed to isBlockedHost directly
    guardOut,           \* what isBlockedHost returned for it and its case variants
    summaryIn,          \* an origin response handed to buildFetchSummary directly
    summaryOut,         \* the summary it returned
    keyIn,              \* two requests handed to clientKey and checkRateLimit directly
    keyOut              \* their keys and the counter table after both calls

limiterVars == <<now, RATE_LIMIT_STORE, limits, last, hist, recent>>
pipelineVars == <<cache, req, started, prev>>
guardVars == <<guardIn, guardOut>>
summaryVars == <<summaryIn, summaryOut>>
keyVars == <<keyIn, keyOut>>
vars == <<limiterVars, pipelineVars, guardVars, summaryVars, keyVars>>

(***************************************************************************)
(* Bounds of the model.                                                    *)
(***************************************************************************)
TickMs == 500
MaxTicks == 6
MaxCallsPerWindow == 4
NumReq == 2
MaxStarted == 2
MaxIoTicks == 1
MaxOctet == 40
MaxShortBody == 3
MaxOverflow == 3

MaxNow == TickMs * MaxTicks

(***************************************************************************)
(* Optional values: <<>> is null/undefined, <<v>> is the value v.          *)
(***************************************************************************)
Null == <<>>
Some(v) == <<v>>
IsNull(o) == o = <<>>
Val(o) == o[1]

(***************************************************************************)
(* Strings, as the String methods the code calls compute them.             *)
(***************************************************************************)
CharAt(s, i) == SubSeq(s, i, i)

UpperLetters == "ABCDEFGHIJKLMNOPQRSTUVWXYZ"
LowerLetters == "abcdefghijklmnopqrstuvwxyz"

LetterIndex(letters, c) ==
    IF \E i \in 1..Len(letters) : CharAt(letters, i) = c
    THEN CHOOSE i \in 1..Len(letters) : CharAt(letters, i) = c
    ELSE 0

RECURSIVE MapChars(_, _, _)
MapChars(s, from, to) ==
    IF s = "" THEN ""
    ELSE LET c == Head(s)
             i == LetterIndex(from, c)
         IN  (IF i = 0 THEN c ELSE CharAt(to, i)) \o MapChars(Tail(s), from, to)

\* String.prototype.toLowerCase / toUpperCase on ASCII text
toLowerCase(s) == MapChars(s, UpperLetters, LowerLetters)
toUpperCase(s) == MapChars(s, LowerLetters, UpperLetters)

startsWith(s, prefix) ==
    Len(s) >= Len(prefix) /\ SubSeq(s, 1, Len(prefix)) = prefix

includes(s, part) ==
    \E i \in 1..(Len(s) - Len(part) + 1) : SubSeq(s, i, i + Len(part) - 1) = part

\* the first position of character c in s, 0 when there is none
IndexOf(s, c) ==
    IF \E i \in 1..Len(s) : CharAt(s, i) = c
    THEN CHOOSE i \in 1..Len(s) :
             CharAt(s, i) = c /\ \A j \in 1..(i - 1) : CharAt(s, j) # c
    ELSE 0

\* String.prototype.split on a one-character separator
RECURSIVE split(_, _)
split(s, sep) ==
    LET i == IndexOf(s, sep)
    IN  IF i = 0 THEN <<s>>
        ELSE <<SubSeq(s, 1, i - 1)>> \o split(SubSeq(s, i + 1, Len(s)), sep)

(***************************************************************************)
(* Number(string) on text without whitespace and without a decimal point   *)
(* (a dot-separated segment of a lower-cased hostname): Null is NaN, and a *)
(* number is the fraction num / den.  Digit strings are read up to         *)
(* MaxDigits digits and exponents up to MaxExponent, values beyond them    *)
(* saturating far above every number the code compares with.               *)
(***************************************************************************)
MaxDigits == 8
MaxExponent == 4
Digits == "0123456789abcdef"

DigitValue(c) == LetterIndex(Digits, c) - 1

IsNumeral(s, base) ==
    /\ s # ""
    /\ \A i \in 1..Len(s) :
           DigitValue(CharAt(s, i)) >= 0 /\ DigitValue(CharAt(s, i)) < base

RECURSIVE Pow(_, _)
Pow(b, e) == IF e = 0 THEN 1 ELSE b * Pow(b, e - 1)

Saturated == Pow(10, MaxDigits)

RECURSIVE NumeralValue(_, _, _)
\* the value of numeral s in the base, after the digits read so far (acc)
NumeralValue(s, base, acc) ==
    IF s = "" THEN acc
    ELSE IF acc >= Saturated THEN Saturated
    ELSE NumeralValue(Tail(s), base, acc * base + DigitValue(Head(s)))

Fraction(n, d) == Some([num |-> n, den |-> d])

DecimalLiteral(s) ==
    LET e == IndexOf(s, "e")
        mant == IF e = 0 THEN s ELSE SubSeq(s, 1, e - 1)
        rest == IF e = 0 THEN "0" ELSE SubSeq(s, e + 1, Len(s))
        expNeg == startsWith(rest, "-")
        expDigits == IF startsWith(rest, "-") \/ startsWith(rest, "+")
                     THEN Tail(rest) ELSE rest
    IN  IF ~IsNumeral(mant, 10) \/ ~IsNumeral(expDigits, 10) THEN Null
        ELSE LET m == NumeralValue(mant, 10, 0)
                 x == NumeralValue(expDigits, 10, 0)
                 k == IF x > MaxExponent THEN MaxExponent ELSE x
             IN  IF expNeg THEN Fraction(m, Pow(10, k))
                 ELSE Fraction(IF m = 0 THEN 0
                               ELSE IF m * Pow(10, k) >= Saturated THEN Saturated
                               ELSE m * Pow(10, k), 1)

Negated(o) ==
    IF IsNull(o) THEN o ELSE Fraction(0 - Val(o).num, Val(o).den)

StringToNumber(s) ==
    IF s = "" THEN Fraction(0, 1)
    ELSE IF startsWith(s, "0x")
    THEN (IF IsNumeral(SubSeq(s, 3, Len(s)), 16)
          THEN Fraction(NumeralValue(SubSeq(s, 3, Len(s)), 16, 0), 1) ELSE Null)
    ELSE IF startsWith(s, "0o")
    THEN (IF IsNumeral(SubSeq(s, 3, Len(s)), 8)
          THEN Fraction(NumeralValue(SubSeq(s, 3, Len(s)), 8, 0), 1) ELSE Null)
    ELSE IF startsWith(s, "0b")
    THEN (IF IsNumeral(SubSeq(s, 3, Len(s)), 2)
          THEN Fraction(NumeralValue(SubSeq(s, 3, Len(s)), 2, 0), 1) ELSE Null)
    ELSE IF startsWith(s, "+") THEN DecimalLiteral(Tail(s))
    ELSE IF startsWith(s, "-") THEN Negated(DecimalLiteral(Tail(s)))
    ELSE DecimalLiteral(s)

\* q >= n and q <= n for a fraction q and an integer n
AtLeast(q, n) == q.num >= n * q.den
AtMost(q, n) == q.num <= n * q.den

(***************************************************************************)
(* The SSRF guard.                                                         *)
(***************************************************************************)
PrivateBLow == 16
PrivateBHigh == 31

\* a guard that takes 172.16 for public
isBlockedHost_lowerExclusive(hostname) ==
    LET host == toLowerCase(hostname)
    IN  IF host = "localhost" \/ host = "127.0.0.1" \/ host = "::1" THEN TRUE
        ELSE IF startsWith(host, "10.") THEN TRUE
        ELSE IF startsWith(host, "192.168.") THEN TRUE
        ELSE IF startsWith(host, "172.")
        THEN LET parts == split(host, ".")
                 second == StringToNumber(parts[2])
             IN  /\ ~IsNull(second)
                 /\ AtLeast(Val(second), PrivateBLow + 1)
                 /\ AtMost(Val(second), PrivateBHigh)
        ELSE FALSE

isBlockedHost(hostname) ==
    LET host == toLowerCase(hostname)
    IN  IF host = "localhost" \/ host = "127.0.0.1" \/ host = "::1" THEN TRUE
        ELSE IF startsWith(host, "10.") THEN TRUE
        ELSE IF startsWith(host, "192.168.") THEN TRUE
        ELSE IF startsWith(host, "172.")
        THEN LET parts == split(host, ".")
                 second == StringToNumber(parts[2])
             IN  /\ ~IsNull(second)
                 /\ AtLeast(Val(second), PrivateBLow)
                 /\ AtMost(Val(second), PrivateBHigh)
        ELSE FALSE

(***************************************************************************)
(* String(n) for an integer n.                                             *)
(***************************************************************************)
RECURSIVE NatToString(_)
NatToString(n) ==
    IF n < 10 THEN CharAt(Digits, n + 1)
    ELSE NatToString(n \div 10) \o CharAt(Digits, (n % 10) + 1)

String(n) == IF n < 0 THEN "-" \o NatToString(0 - n) ELSE NatToString(n)

(***************************************************************************)
(* new URL(input) for an absolute URL without query or fragment, as the    *)
(* URL standard parses it: Null when the constructor throws, otherwise the *)
(* protocol, hostname, port and pathname.  A bracketed IPv6 literal keeps  *)
(* its brackets in hostname and is taken to be written in its serialised   *)
(* form; a host that ends in a number is an IPv4 address and is rewritten  *)
(* as four decimal octets.                                                 *)
(***************************************************************************)
SchemeChars == LowerLetters \o "0123456789+-."
ForbiddenHostChars == " <>[]^|%\\"
SpecialSchemes == {"http", "https", "ftp", "ws", "wss"}
MaxOctetValue == 255
MaxPort == 65535

DefaultPort(scheme) ==
    IF scheme = "https" \/ scheme = "wss" THEN "443"
    ELSE IF scheme = "http" \/ scheme = "ws" THEN "80"
    ELSE IF scheme = "ftp" THEN "21" ELSE ""

LastIndexOf(s, c) ==
    IF \E i \in 1..Len(s) : CharAt(s, i) = c
    THEN CHOOSE i \in 1..Len(s) :
             CharAt(s, i) = c /\ \A j \in (i + 1)..Len(s) : CharAt(s, j) # c
    ELSE 0

\* the first position of a character of set in s, Len(s) + 1 when none
FirstOf(s, set) ==
    IF \E i \in 1..Len(s) : LetterIndex(set, CharAt(s, i)) # 0
    THEN CHOOSE i \in 1..Len(s) :
             /\ LetterIndex(set, CharAt(s, i)) # 0
             /\ \A j \in 1..(i - 1) : LetterIndex(set, CharAt(s, j)) = 0
    ELSE Len(s) + 1

RECURSIVE StripSlashes(_)
StripSlashes(s) ==
    IF s # "" /\ (Head(s) = "/" \/ Head(s) = "\\") THEN StripSlashes(Tail(s)) ELSE s

\* the IPv4 number parser: decimal, 0x hexadecimal, leading-0 octal
Ipv4Number(part) ==
    IF part = "" THEN Null
    ELSE IF Len(part) >= 2 /\ startsWith(part, "0x")
    THEN (IF Len(part) = 2 THEN Some(0)
          ELSE IF IsNumeral(SubSeq(part, 3, Len(part)), 16)
          THEN Some(NumeralValue(SubSeq(part, 3, Len(part)), 16, 0)) ELSE Null)
    ELSE IF Len(part) >= 2 /\ startsWith(part, "0")
    THEN (IF IsNumeral(Tail(part), 8)
          THEN Some(NumeralValue(Tail(part), 8, 0)) ELSE Null)
    ELSE IF IsNumeral(part, 10) THEN Some(NumeralValue(part, 10, 0))
    ELSE Null

DropLastEmpty(parts) ==
    IF Len(parts) > 1 /\ parts[Len(parts)] = ""
    THEN SubSeq(parts, 1, Len(parts) - 1) ELSE parts

EndsInNumber(host) ==
    LET parts == DropLastEmpty(split(host, "."))
        lastPart == parts[Len(parts)]
    IN  /\ lastPart # ""
        /\ IsNumeral(lastPart, 10) \/ ~IsNull(Ipv4Number(lastPart))

\* Null on failure, otherwise the address in dotted decimal
Ipv4Host(host) ==
    LET parts == DropLastEmpty(split(host, "."))
        n == Len(parts)
        nums == [i \in 1..n |-> Ipv4Number(parts[i])]
    IN  IF n > 4 \/ \E i \in 1..n : IsNull(nums[i]) THEN Null
        ELSE IF \E i \in 1..(n - 1) : Val(nums[i]) > MaxOctetValue THEN Null
        ELSE IF n > 1 /\ Val(nums[n]) >= Pow(MaxOctetValue + 1, 5 - n) THEN Null
        ELSE LET lastNum == Val(nums[n])
                 octet(i) ==
                     IF i < n THEN Val(nums[i])
                     ELSE (lastNum \div Pow(MaxOctetValue + 1, 4 - i))
                              % (MaxOctetValue + 1)
             IN  Some(String(octet(1)) \o "." \o String(octet(2)) \o "."
                      \o String(octet(3)) \o "." \o String(octet(4)))

HostOf(text) ==
    IF text = "" THEN Null
    ELSE IF startsWith(text, "[")
    THEN (IF CharAt(text, Len(text)) = "]" /\ Len(text) > 2
          THEN Some(toLowerCase(text)) ELSE Null)
    ELSE LET host == toLowerCase(text)
         IN  IF FirstOf(host, ForbiddenHostChars) <= Len(host) THEN Null
             ELSE IF EndsInNumber(host) THEN Ipv4Host(host)
             ELSE Some(host)

\* the port as serialised: the empty string for none or the scheme's default
PortOf(scheme, portText) ==
    IF portText = "" THEN ""
    ELSE IF String(NumeralValue(portText, 10, 0)) = DefaultPort(scheme) THEN ""
    ELSE String(NumeralValue(portText, 10, 0))

PortOk(portText) ==
    \/ portText = ""
    \/ IsNumeral(portText, 10) /\ NumeralValue(portText, 10, 0) <= MaxPort

UrlRecord(scheme, host, portText, path) ==
    IF IsNull(host) \/ ~PortOk(portText) THEN Null
    ELSE Some([protocol |-> scheme \o ":",
               hostname |-> Val(host),
               port |-> PortOf(scheme, portText),
               pathname |-> IF path = "" THEN "/" ELSE path])

\* host and port of the authority without its userinfo; a colon inside the
\* brackets of an IPv6 literal is no port separator
SplitHostPort(scheme, hostPort, close, path) ==
    IF IndexOf(SubSeq(hostPort, close + 1, Len(hostPort)), ":") = 0
    THEN UrlRecord(scheme, HostOf(hostPort), "", path)
    ELSE UrlRecord(scheme,
             HostOf(SubSeq(hostPort, 1,
                 close + IndexOf(SubSeq(hostPort, close + 1, Len(hostPort)), ":") - 1)),
             SubSeq(hostPort,
                 close + IndexOf(SubSeq(hostPort, close + 1, Len(hostPort)), ":") + 1,
                 Len(hostPort)),
             path)

DropUserInfo(authority) ==
    SubSeq(authority, LastIndexOf(authority, "@") + 1, Len(authority))

ParseAuthority(scheme, authority, path) ==
    SplitHostPort(scheme, DropUserInfo(authority),
                  LastIndexOf(DropUserInfo(authority), "]"), path)

\* after the scheme of a special URL: slashes, then authority, then path
ParseSpecial(scheme, after) ==
    ParseAuthority(scheme,
                   SubSeq(after, 1, FirstOf(after, "/\\") - 1),
                   SubSeq(after, FirstOf(after, "/\\"), Len(after)))

SchemeOk(scheme) ==
    /\ scheme # ""
    /\ LetterIndex(LowerLetters, Head(scheme)) # 0
    /\ \A i \in 1..Len(scheme) : LetterIndex(SchemeChars, CharAt(scheme, i)) # 0

ParseScheme(scheme, rest) ==
    IF ~SchemeOk(scheme) THEN Null
    ELSE IF scheme \notin SpecialSchemes
    THEN Some([protocol |-> scheme \o ":", hostname |-> "",
               port |-> "", pathname |-> rest])
    ELSE ParseSpecial(scheme, StripSlashes(rest))

ParseUrl(input) ==
    IF IndexOf(input, ":") = 0 THEN Null
    ELSE ParseScheme(toLowerCase(SubSeq(input, 1, IndexOf(input, ":") - 1)),
                     SubSeq(input, IndexOf(input, ":") + 1, Len(input)))

\* URL.prototype.toString of a parsed special-scheme URL
UrlToString(u) ==
    u.protocol \o "//" \o u.hostname
        \o (IF u.port = "" THEN "" ELSE ":" \o u.port) \o u.pathname

(***************************************************************************)
(* The target validator.  The parameter is url.searchParams.get("url"):    *)
(* Null when the query has no url parameter.                               *)
(***************************************************************************)
\* a validator that lets every scheme through
getValidatedHttpsUrl_anyScheme(target) ==
    IF IsNull(target) \/ Val(target) = "" THEN Null
    ELSE ParseUrl(Val(target))

getValidatedHttpsUrl(target) ==
    IF IsNull(target) \/ Val(target) = "" THEN Null
    ELSE LET targetUrl == ParseUrl(Val(target))
         IN  IF IsNull(targetUrl) THEN Null
             ELSE IF Val(targetUrl).protocol # "https:" THEN Null
             ELSE targetUrl

(***************************************************************************)
(* Client identity.  A request carries the headers clientKey reads and the *)
(* cf object's country and colo.                                           *)
(***************************************************************************)
HeaderCases ==
    { [cfip |-> Some("1.1.1.1"), xff |-> Null, ua |-> Some("curl"),
       country |-> Some("PT"), colo |-> Some("LIS")],
      [cfip |-> Null, xff |-> Some("1.1.1.1"), ua |-> Some("curl"),
       country |-> Some("PT"), colo |-> Some("LIS")],
      [cfip |-> Null, xff |-> Null, ua |-> Null,
       country |-> Null, colo |-> Null] }

\* a || b on header values: the empty string is falsy as null is
OrElse(o, d) == IF IsNull(o) \/ o = Some("") THEN d ELSE o

\* a ?? b: only null/undefined falls through
Coalesce(o, d) == IF IsNull(o) THEN d ELSE Val(o)

\* a clientKey that prefers x-forwarded-for to cf-connecting-ip
clientKey_forwardedFirst(request) ==
    LET ip == Val(OrElse(request.xff, OrElse(request.cfip, Some("no-ip"))))
        ua == Coalesce(request.ua, "no-ua")
        country == Coalesce(request.country, "no-country")
        colo == Coalesce(request.colo, "no-colo")
    IN  ip \o "|" \o country \o "|" \o colo \o "|" \o ua

clientKey(request) ==
    LET ip == Val(OrElse(request.cfip, OrElse(request.xff, Some("no-ip"))))
        ua == Coalesce(request.ua, "no-ua")
        country == Coalesce(request.country, "no-country")
        colo == Coalesce(request.colo, "no-colo")
    IN  ip \o "|" \o country \o "|" \o colo \o "|" \o ua

(***************************************************************************)
(* The rate limiter.                                                       *)
(***************************************************************************)
MsPerSecond == 1000

Min(a, b) == IF a <= b THEN a ELSE b

\* Math.floor in place of Math.ceil
CeilDiv_floor(a, b) == a \div b

\* Math.ceil(a / b) for b > 0
CeilDiv(a, b) == -((-a) \div b)

MapSet(map, key, value) ==
    [k \in DOMAIN map \cup {key} |-> IF k = key THEN value ELSE map[k]]

\* checkRateLimit with the quota test written entry.count > maxRequests
checkRateLimit_quotaOffByOne(request, maxRequests, windowSeconds) ==
    LET windowMs == windowSeconds * MsPerSecond
        key == clientKey(request)
        has == key \in DOMAIN RATE_LIMIT_STORE
        entry == RATE_LIMIT_STORE[key]
    IN  IF ~has \/ now - entry.windowStartMs >= windowMs
        THEN [store |-> MapSet(RATE_LIMIT_STORE, key,
                               [windowStartMs |-> now, count |-> 1]),
              allowed |-> TRUE, retryAfterSeconds |-> 0]
        ELSE IF entry.count > maxRequests
        THEN [store |-> RATE_LIMIT_STORE,
              allowed |-> FALSE,
              retryAfterSeconds |->
                  CeilDiv(windowMs - (now - entry.windowStartMs), MsPerSecond)]
        ELSE [store |-> MapSet(RATE_LIMIT_STORE, key,
                               [entry EXCEPT !.count = @ + 1]),
              allowed |-> TRUE, retryAfterSeconds |-> 0]

\* checkRateLimit with the window test written now - windowStartMs > windowMs
checkRateLimit_boundaryExclusive(request, maxRequests, windowSeconds) ==
    LET windowMs == windowSeconds * MsPerSecond
        key == clientKey(request)
        has == key \in DOMAIN RATE_LIMIT_STORE
        entry == RATE_LIMIT_STORE[key]
    IN  IF ~has \/ now - entry.windowStartMs > windowMs
        THEN [store |-> MapSet(RATE_LIMIT_STORE, key,
                               [windowStartMs |-> now, count |-> 1]),
              allowed |-> TRUE, retryAfterSeconds |-> 0]
        ELSE IF entry.count >= maxRequests
        THEN [store |-> RATE_LIMIT_STORE,
              allowed |-> FALSE,
              retryAfterSeconds |->
                  CeilDiv(windowMs - (now - entry.windowStartMs), MsPerSecond)]
        ELSE [store |-> MapSet(RATE_LIMIT_STORE, key,
                               [entry EXCEPT !.count = @ + 1]),
              allowed |-> TRUE, retryAfterSeconds |-> 0]

\* a limiter that also starts a new window when the clock is behind the
\* window's start
checkRateLimit_resetOnSkew(request, maxRequests, windowSeconds) ==
    LET windowMs == windowSeconds * MsPerSecond
        key == clientKey(request)
        has == key \in DOMAIN RATE_LIMIT_STORE
        entry == RATE_LIMIT_STORE[key]
    IN  IF ~has \/ now - entry.windowStartMs >= windowMs \/ now < entry.windowStartMs
        THEN [store |-> MapSet(RATE_LIMIT_STORE, key,
                               [windowStartMs |-> now, count |-> 1]),
              allowed |-> TRUE, retryAfterSeconds |-> 0]
        ELSE IF entry.count >= maxRequests
        THEN [store |-> RATE_LIMIT_STORE,
              allowed |-> FALSE,
              retryAfterSeconds |->
                  CeilDiv(windowMs - (now - entry.windowStartMs), MsPerSecond)]
        ELSE [store |-> MapSet(RATE_LIMIT_STORE, key,
                               [entry EXCEPT !.count = @ + 1]),
              allowed |-> TRUE, retryAfterSeconds |-> 0]

\* a limiter whose increment does not reach the table
checkRateLimit_lostIncrement(request, maxRequests, windowSeconds) ==
    LET windowMs == windowSeconds * MsPerSecond
        key == clientKey(request)
        has == key \in DOMAIN RATE_LIMIT_STORE
        entry == RATE_LIMIT_STORE[key]
    IN  IF ~has \/ now - entry.windowStartMs >= windowMs
        THEN [store |-> MapSet(RATE_LIMIT_STORE, key,
                               [windowStartMs |-> now, count |-> 1]),
              allowed |-> TRUE, retryAfterSeconds |-> 0]
        ELSE IF entry.count >= maxRequests
        THEN [store |-> RATE_LIMIT_STORE,
              allowed |-> FALSE,
              retryAfterSeconds |->
                  CeilDiv(windowMs - (now - entry.windowStartMs), MsPerSecond)]
        ELSE [store |-> RATE_LIMIT_STORE,
              allowed |-> TRUE, retryAfterSeconds |-> 0]

\* a limiter whose window ends after half its length
checkRateLimit_earlyReset(request, maxRequests, windowSeconds) ==
    LET windowMs == windowSeconds * MsPerSecond
        key == clientKey(request)
        has == key \in DOMAIN RATE_LIMIT_STORE
        entry == RATE_LIMIT_STORE[key]
    IN  IF ~has \/ 2 * (now - entry.windowStartMs) >= windowMs
        THEN [store |-> MapSet(RATE_LIMIT_STORE, key,
                               [windowStartMs |-> now, count |-> 1]),
              allowed |-> TRUE, retryAfterSeconds |-> 0]
        ELSE IF entry.count >= maxRequests
        THEN [store |-> RATE_LIMIT_STORE,
              allowed |-> FALSE,
              retryAfterSeconds |->
                  CeilDiv(windowMs - (now - entry.windowStartMs), MsPerSecond)]
        ELSE [store |-> MapSet(RATE_LIMIT_STORE, key,
                               [entry EXCEPT !.count = @ + 1]),
              allowed |-> TRUE, retryAfterSeconds |-> 0]

\* a limiter whose rejection starts the client's window again
checkRateLimit_rejectExtends(request, maxRequests, windowSeconds) ==
    LET windowMs == windowSeconds * MsPerSecond
        key == clientKey(request)
        has == key \in DOMAIN RATE_LIMIT_STORE
        entry == RATE_LIMIT_STORE[key]
    IN  IF ~has \/ now - entry.windowStartMs >= windowMs
        THEN [store |-> MapSet(RATE_LIMIT_STORE, key,
                               [windowStartMs |-> now, count |-> 1]),
              allowed |-> TRUE, retryAfterSeconds |-> 0]
        ELSE IF entry.count >= maxRequests
        THEN [store |-> MapSet(RATE_LIMIT_STORE, key,
                               [entry EXCEPT !.windowStartMs = now]),
              allowed |-> FALSE,
              retryAfterSeconds |->
                  CeilDiv(windowMs - (now - entry.windowStartMs), MsPerSecond)]
        ELSE [store |-> MapSet(RATE_LIMIT_STORE, key,
                               [entry EXCEPT !.count = @ + 1]),
              allowed |-> TRUE, retryAfterSeconds |-> 0]

\* a limiter that reports the time elapsed in the window as the time to wait
checkRateLimit_retryFromElapsed(request, maxRequests, windowSeconds) ==
    LET windowMs == windowSeconds * MsPerSecond
        key == clientKey(request)
        has == key \in DOMAIN RATE_LIMIT_STORE
        entry == RATE_LIMIT_STORE[key]
    IN  IF ~has \/ now - entry.windowStartMs >= windowMs
        THEN [store |-> MapSet(RATE_LIMIT_STORE, key,
                               [windowStartMs |-> now, count |-> 1]),
              allowed |-> TRUE, retryAfterSeconds |-> 0]
        ELSE IF entry.count >= maxRequests
        THEN [store |-> RATE_LIMIT_STORE,
              allowed |-> FALSE,
              retryAfterSeconds |->
                  CeilDiv(now - entry.windowStartMs, MsPerSecond)]
        ELSE [store |-> MapSet(RATE_LIMIT_STORE, key,
                               [entry EXCEPT !.count = @ + 1]),
              allowed |-> TRUE, retryAfterSeconds |-> 0]

\* The result of checkRateLimit and the store it leaves.
checkRateLimit(request, maxRequests, windowSeconds) ==
    LET windowMs == windowSeconds * MsPerSecond
        key == clientKey(request)
        has == key \in DOMAIN RATE_LIMIT_STORE
        entry == RATE_LIMIT_STORE[key]
    IN  IF ~has \/ now - entry.windowStartMs >= windowMs
        THEN [store |-> MapSet(RATE_LIMIT_STORE, key,
                               [windowStartMs |-> now, count |-> 1]),
              allowed |-> TRUE, retryAfterSeconds |-> 0]
        ELSE IF entry.count >= maxRequests
        THEN [store |-> RATE_LIMIT_STORE,
              allowed |-> FALSE,
              retryAfterSeconds |->
                  CeilDiv(windowMs - (now - entry.windowStartMs), MsPerSecond)]
        ELSE [store |-> MapSet(RATE_LIMIT_STORE, key,
                               [entry EXCEPT !.count = @ + 1]),
              allowed |-> TRUE, retryAfterSeconds |-> 0]

(***************************************************************************)
(* Observation of a call (no part of the program's state).  hist[k] is the *)
(* window of key k as the clock alone defines it: it starts with the first *)
(* call of k, or the first call made windowMs or more after the start of   *)
(* the window before, and counts the calls made in it.                     *)
(***************************************************************************)
NoCall == [called |-> FALSE]

InWindow(key, windowMs) ==
    key \in DOMAIN hist /\ now - hist[key].start < windowMs

HistAfter(key, windowMs, res) ==
    LET a == IF res.allowed THEN 1 ELSE 0
        r == IF res.allowed THEN 0 ELSE 1
        dueOf == IF res.allowed
                 THEN Null
                 ELSE Some(now + res.retryAfterSeconds * MsPerSecond)
        old == hist[key]
        oldDue == IF key \in DOMAIN hist THEN old.due ELSE Null
        \* the time the latest rejection asked the key to retry at, until
        \* a call is made at or after it
        due == IF ~res.allowed THEN dueOf
               ELSE IF ~IsNull(oldDue) /\ now >= Val(oldDue) THEN Null
               ELSE oldDue
    IN  IF InWindow(key, windowMs)
        THEN MapSet(hist, key,
                 [start |-> old.start, calls |-> old.calls + 1,
                  allowedCalls |-> old.allowedCalls + a,
                  rejectedCalls |-> old.rejectedCalls + r,
                  due |-> due,
                  \* the same, until a call of the key is allowed
                  dueQuiet |-> dueOf])
        ELSE MapSet(hist, key,
                 [start |-> now, calls |-> 1,
                  allowedCalls |-> a, rejectedCalls |-> r,
                  due |-> due,
                  dueQuiet |-> dueOf])

LastOf(key, maxRequests, windowSeconds, res) ==
    LET has == key \in DOMAIN RATE_LIMIT_STORE
        hasHist == key \in DOMAIN hist
    IN  [called |-> TRUE, key |-> key, at |-> now,
         maxRequests |-> maxRequests, windowSeconds |-> windowSeconds,
         hadEntry |-> has,
         prevEntry |-> IF has THEN Some(RATE_LIMIT_STORE[key]) ELSE Null,
         prevRejected |-> IF hasHist THEN hist[key].rejectedCalls ELSE 0,
         prevDue |-> IF hasHist THEN hist[key].due ELSE Null,
         prevDueQuiet |-> IF hasHist THEN hist[key].dueQuiet ELSE Null,
         allowed |-> res.allowed,
         retryAfterSeconds |-> res.retryAfterSeconds]

\* recent[k] after a call: the times of the allowed calls of k that lie no
\* more than windowMs before its latest allowed call, that call included
RecentAfter(key, windowMs, res) ==
    LET old == IF key \in DOMAIN recent THEN recent[key] ELSE <<>>
        kept == SelectSeq(old, LAMBDA t : now - t <= windowMs /\ t - now <= windowMs)
    IN  IF res.allowed THEN MapSet(recent, key, Append(kept, now)) ELSE recent

CallsLeft(key, windowMs) ==
    InWindow(key, windowMs) => hist[key].calls < MaxCallsPerWindow

(***************************************************************************)
(* Responses.  A response is its status, its headers (a map from header    *)
(* name to value) and its body, the data JSON.stringify serialises.        *)
(***************************************************************************)
REQUEST_SEQ == 0

Merge(base, extra) ==
    [k \in DOMAIN base \cup DOMAIN extra |->
        IF k \in DOMAIN extra THEN extra[k] ELSE base[k]]

NoHeaders == <<>>

jsonResponse(data, status, extraHeaders) ==
    [status |-> status,
     headers |-> Merge([k \in {"Content-Type", "X-Debug-Req"} |->
                           IF k = "Content-Type"
                           THEN "application/json; charset=utf-8"
                           ELSE String(REQUEST_SEQ)],
                       extraHeaders),
     body |-> data]

StatusBadRequest == 400
StatusRateLimited == 429
StatusBadGateway == 502
StatusOk == 200

jsonError(code, message, status) ==
    jsonResponse([error |-> code, message |-> message], status, NoHeaders)

\* a 429 sent as a 400
rateLimitedResponse_asBadRequest(retryAfterSeconds) ==
    jsonResponse([error |-> "rate_limited", retryAfterSeconds |-> retryAfterSeconds],
                 StatusBadRequest,
                 [k \in {"Retry-After"} |-> String(retryAfterSeconds)])

rateLimitedResponse(retryAfterSeconds) ==
    jsonResponse([error |-> "rate_limited", retryAfterSeconds |-> retryAfterSeconds],
                 StatusRateLimited,
                 [k \in {"Retry-After"} |-> String(retryAfterSeconds)])

\* a withHeader that starts from empty headers
withHeader_freshHeaders(resp, key, value) ==
    [status |-> resp.status,
     headers |-> MapSet(NoHeaders, key, value),
     body |-> resp.body]

withHeader(resp, key, value) ==
    [status |-> resp.status,
     headers |-> MapSet(resp.headers, key, value),
     body |-> resp.body]

BadRequestResponse ==
    jsonError("bad_request",
              "Missing/invalid \"url\". Example: /fetch?url=https://example.com",
              StatusBadRequest)

BlockedTargetResponse ==
    jsonError("blocked_target",
              "That target host is blocked for safety (localhost/private network).",
              StatusBadRequest)

\* the response of handleFetch when fetchWithTiming returns ok: false
UpstreamFailedResponse(targetUrl, elapsedMs, err) ==
    jsonResponse([targetUrl |-> targetUrl, status |-> Null, elapsedMs |-> elapsedMs,
                  contentType |-> Null, preview |-> Null,
                  error |-> "upstream_fetch_failed",
                  message |-> Coalesce(err, "Failed to fetch upstream URL.")],
                 StatusBadGateway,
                 [k \in {"X-Edge-Fetch-Ms"} |-> String(elapsedMs)])

PreviewLimit == 300

\* a slice that keeps one character more
slice_oneMore(text, limit) == SubSeq(text, 1, Min(Len(text), limit + 1))

\* text.slice(0, 300)
slice(text, limit) == SubSeq(text, 1, Min(Len(text), limit))

previewable(contentType) ==
    /\ ~IsNull(contentType)
    /\ \/ startsWith(Val(contentType), "text/")
       \/ includes(Val(contentType), "application/json")

\* what buildFetchSummary returns; text is Null when upstream.text() was not
\* called or rejected
buildFetchSummary(targetUrl, upstream, elapsedMs, text) ==
    [targetUrl |-> targetUrl,
     status |-> upstream.status,
     elapsedMs |-> elapsedMs,
     contentType |-> upstream.contentType,
     preview |-> IF previewable(upstream.contentType) /\ ~IsNull(text)
                 THEN Some(slice(Val(text), PreviewLimit)) ELSE Null]

\* the response handleFetch builds on the miss path
MissResponse(body, elapsedMs) ==
    jsonResponse(body, StatusOk,
                 [k \in {"X-Edge-Fetch-Ms", "X-Cache", "Cache-Control"} |->
                     IF k = "X-Edge-Fetch-Ms" THEN String(elapsedMs)
                     ELSE IF k = "X-Cache" THEN "MISS"
                     ELSE "public, max-age=60"])

(***************************************************************************)
(* The inputs of the pipeline.                                             *)
(***************************************************************************)
\* values of the url query parameter
TargetCases ==
    { Null, Some(""), Some("not a url"), Some("//example.com"),
      Some("http://example.com/"), Some("ftp://example.com/"),
      Some("https://172.abc.1.1/"),
      Some("https://example.com"), Some("HTTPS://EXAMPLE.COM/"),
      Some("https://[::1]/"),
      Some("https://localhost/"), Some("https://LocalHost:8443/x"),
      Some("https://127.1/"), Some("https://10.0.0.5/"),
      Some("https://192.168.1.1/"), Some("https://172.16.0.1/"),
      Some("https://172.0x1f.0.1/") }

\* getValidatedHttpsUrl of each of them, and isBlockedHost of the hostname
\* of those that are valid, computed once
ValidatedTargets == [t \in TargetCases |-> getValidatedHttpsUrl(t)]

\* a handleFetch that does not consult the guard
BlockedTargets_guardSkipped == [t \in TargetCases |-> FALSE]

BlockedTargets ==
    [t \in TargetCases |->
        ~IsNull(ValidatedTargets[t]) /\ isBlockedHost(Val(ValidatedTargets[t]).hostname)]

\* what the origin answers when the fetch resolves
OriginCases ==
    { [status |-> 200, contentType |-> Some("text/plain"), text |-> "hello"],
      [status |-> 404, contentType |-> Some("application/json"), text |-> "{}"],
      [status |-> 503, contentType |-> Null, text |-> "down"] }

\* what the fetch rejects with: an Error's message, or Null for another value
FetchErrors == { Some("connect ECONNREFUSED"), Null }

(***************************************************************************)
(* The router's /fetch route and handleFetch.  A request is an entry of    *)
(* req, at the await it is suspended at:                                   *)
(*   match  await cache.match(cacheKey)                                    *)
(*   fetch  await fetch(targetUrl) in fetchWithTiming                      *)
(*   text   await upstream.text() in buildFetchSummary                     *)
(*   put    await cache.put(cacheKey, resp.clone())                        *)
(*   done   the response is returned;  threw  an exception left the handler*)
(* io lists the capabilities the request has used, in order, and cacheWas  *)
(* of a settled request is the cache as its last step found it             *)
(* (observations).                                                         *)
(***************************************************************************)
RouterMaxRequests == 20
RouterWindowSeconds == 60

Reqs == 1..NumReq

Idle == [pc |-> "idle"]

Settled(r) == req[r].pc \in {"done", "threw"}

\* a returned response is handed to the client before anything else happens
NoneSettled == \A r \in Reqs : ~Settled(r)

StatusNotFound == 404

\* the page GET /ui serves, by its first line
UI_HTML == "<!doctype html>"

htmlResponse(html, status) ==
    [status |-> status,
     headers |-> [k \in {"Content-Type"} |-> "text/html; charset=utf-8"],
     body |-> html]

handleWhoAmI(request, method, pathname) ==
    jsonResponse([method |-> method,
                  pathname |-> pathname,
                  userAgent |-> Coalesce(request.ua, "unknown"),
                  country |-> request.country,
                  colo |-> request.colo,
                  ipNote |-> "Client IP is not guaranteed."],
                 StatusOk, NoHeaders)

\* the requests the router sees besides GET /fetch: method and pathname
RouteCases ==
    { <<"GET", "/">>, <<"GET", "/whoami">>, <<"GET", "/ui">>,
      <<"GET", "/nope">>, <<"POST", "/fetch">> }

\* what fetch(request) of the router returns on the routes that are not GET /fetch
RouteResponse(method, pathname, request) ==
    IF method = "GET" /\ pathname = "/"
    THEN jsonResponse([message |-> "Edge proxy running",
                       endpoints |-> [whoami |-> "/whoami",
                                      fetch |-> "/fetch?url=https://example.com"]],
                      StatusOk, NoHeaders)
    ELSE IF method = "GET" /\ pathname = "/whoami"
    THEN handleWhoAmI(request, method, pathname)
    ELSE IF method = "GET" /\ pathname = "/ui"
    THEN htmlResponse(UI_HTML, StatusOk)
    ELSE jsonError("not_found",
                   "No route for " \o method \o " " \o pathname
                       \o ". Try /, /whoami or /fetch?url=https://example.com",
                   StatusNotFound)

\* fetch(request) of the router on a route that is not GET /fetch: no await,
\* the response leaves at once
OtherRoute(method, pathname, request) ==
    /\ ~(method = "GET" /\ pathname = "/fetch")
    /\ NoneSettled
    /\ started < MaxStarted
    /\ started' = started + 1
    /\ prev' = [pc |-> "done", class |-> "other-route",
                resp |-> RouteResponse(method, pathname, request)]
    /\ UNCHANGED <<limiterVars, cache, req, guardVars, summaryVars, keyVars>>

\* a router that validates the target before it counts the request
StartFetch_validatesFirst(r, request, target) ==
    LET key == clientKey(request)
        limiter == checkRateLimit(request, RouterMaxRequests, RouterWindowSeconds)
        targetUrl == ValidatedTargets[target]
        early(resp) ==
            [pc |-> "done", io |-> <<>>, request |-> request, target |-> target,
             key |-> key, limited |-> FALSE, cacheWas |-> cache, resp |-> resp]
        settled(resp) ==
            [pc |-> "done", io |-> <<>>, request |-> request, target |-> target,
             key |-> key, limited |-> ~limiter.allowed, cacheWas |-> cache,
             resp |-> resp]
        rejectedEarly == IsNull(targetUrl) \/ BlockedTargets[target]
    IN  /\ NoneSettled
        /\ req[r] = Idle
        /\ \A other \in 1..(r - 1) : req[other] # Idle
        /\ started < MaxStarted
        /\ started' = started + 1
        /\ RATE_LIMIT_STORE' = IF rejectedEarly THEN RATE_LIMIT_STORE ELSE limiter.store
        /\ hist' = IF rejectedEarly THEN hist
                   ELSE HistAfter(key, RouterWindowSeconds * MsPerSecond, limiter)
        /\ req' = [req EXCEPT ![r] =
               IF IsNull(targetUrl)
               THEN early(BadRequestResponse)
               ELSE IF BlockedTargets[target]
               THEN early(BlockedTargetResponse)
               ELSE IF ~limiter.allowed
               THEN settled(rateLimitedResponse(limiter.retryAfterSeconds))
               ELSE [pc |-> "match", io |-> <<>>, target |-> target, key |-> key,
                     limited |-> FALSE, follows |-> prev,
                     targetUrl |-> UrlToString(Val(targetUrl))]]
        /\ UNCHANGED <<now, limits, last, recent, cache, prev, guardVars, summaryVars, keyVars>>

\* fetch(request) of the router for GET /fetch, up to the first await
StartFetch(r, request, target) ==
    LET key == clientKey(request)
        limiter == checkRateLimit(request, RouterMaxRequests, RouterWindowSeconds)
        targetUrl == ValidatedTargets[target]
        settled(resp) ==
            [pc |-> "done", io |-> <<>>, request |-> request, target |-> target,
             key |-> key, limited |-> ~limiter.allowed, cacheWas |-> cache,
             resp |-> resp]
    IN  /\ NoneSettled
        /\ req[r] = Idle
        /\ \A other \in 1..(r - 1) : req[other] # Idle
        /\ started < MaxStarted
        /\ started' = started + 1
        /\ RATE_LIMIT_STORE' = limiter.store
        /\ hist' = HistAfter(key, RouterWindowSeconds * MsPerSecond, limiter)
        /\ req' = [req EXCEPT ![r] =
               IF ~limiter.allowed
               THEN settled(rateLimitedResponse(limiter.retryAfterSeconds))
               ELSE IF IsNull(targetUrl)
               THEN settled(BadRequestResponse)
               ELSE IF BlockedTargets[target]
               THEN settled(BlockedTargetResponse)
               ELSE [pc |-> "match", io |-> <<>>, target |-> target, key |-> key,
                     limited |-> FALSE, follows |-> prev,
                     targetUrl |-> UrlToString(Val(targetUrl))]]
        /\ UNCHANGED <<now, limits, last, recent, cache, prev, guardVars, summaryVars, keyVars>>

\* a handleFetch that goes to the origin whatever the lookup returns
CacheMatch_ignoresEntry(r) ==
    /\ NoneSettled
    /\ req[r].pc = "match"
    /\ req' = [req EXCEPT ![r] =
           Merge(req[r], [pc |-> "fetch", io |-> Append(req[r].io, "match"),
                          start |-> now])]
    /\ UNCHANGED <<limiterVars, cache, started, prev, guardVars, summaryVars, keyVars>>

\* cache.match resolves: a hit returns, a miss starts the timed fetch
CacheMatch(r) ==
    LET q == req[r]
        hit == q.targetUrl \in DOMAIN cache
    IN  /\ NoneSettled
        /\ q.pc = "match"
        /\ req' = [req EXCEPT ![r] =
               IF hit
               THEN Merge(q, [pc |-> "done", io |-> Append(q.io, "match"),
                              cacheWas |-> cache,
                              cached |-> cache[q.targetUrl],
                              resp |-> withHeader(cache[q.targetUrl], "X-Cache", "HIT")])
               ELSE Merge(q, [pc |-> "fetch", io |-> Append(q.io, "match"),
                              start |-> now])]
        /\ UNCHANGED <<limiterVars, cache, started, prev, guardVars, summaryVars, keyVars>>

\* cache.match rejects: nothing in handleFetch catches it
CacheMatchThrows(r) ==
    /\ NoneSettled
    /\ req[r].pc = "match"
    /\ req' = [req EXCEPT ![r] =
           Merge(req[r], [pc |-> "threw", io |-> Append(req[r].io, "match"),
                          cacheWas |-> cache])]
    /\ UNCHANGED <<limiterVars, cache, started, prev, guardVars, summaryVars, keyVars>>

\* a fetchWithTiming that takes an origin status of 400 or more for a failure
FetchResolves_errorStatusFails(r, upstream) ==
    LET q == req[r]
        elapsedMs == now - q.start
        body == buildFetchSummary(q.targetUrl, upstream, elapsedMs, Null)
    IN  /\ NoneSettled
        /\ q.pc = "fetch"
        /\ req' = [req EXCEPT ![r] =
               IF upstream.status >= StatusBadRequest
               THEN Merge(q, [pc |-> "done", io |-> Append(q.io, "fetch"),
                              upstream |-> upstream, elapsedMs |-> elapsedMs,
                              cacheWas |-> cache,
                              resp |-> UpstreamFailedResponse(q.targetUrl, elapsedMs, Null)])
               ELSE IF previewable(upstream.contentType)
               THEN Merge(q, [pc |-> "text", io |-> Append(q.io, "fetch"),
                              upstream |-> upstream, elapsedMs |-> elapsedMs])
               ELSE Merge(q, [pc |-> "put", io |-> Append(q.io, "fetch"),
                              upstream |-> upstream, elapsedMs |-> elapsedMs,
                              resp |-> MissResponse(body, elapsedMs)])]
        /\ UNCHANGED <<limiterVars, cache, started, prev, guardVars, summaryVars, keyVars>>

\* fetch resolves with a response of any status; buildFetchSummary runs up
\* to upstream.text() when the content type is previewable, to its end when not
FetchResolves(r, upstream) ==
    LET q == req[r]
        elapsedMs == now - q.start
        body == buildFetchSummary(q.targetUrl, upstream, elapsedMs, Null)
    IN  /\ NoneSettled
        /\ q.pc = "fetch"
        /\ req' = [req EXCEPT ![r] =
               IF previewable(upstream.contentType)
               THEN Merge(q, [pc |-> "text", io |-> Append(q.io, "fetch"),
                              upstream |-> upstream, elapsedMs |-> elapsedMs])
               ELSE Merge(q, [pc |-> "put", io |-> Append(q.io, "fetch"),
                              upstream |-> upstream, elapsedMs |-> elapsedMs,
                              resp |-> MissResponse(body, elapsedMs)])]
        /\ UNCHANGED <<limiterVars, cache, started, prev, guardVars, summaryVars, keyVars>>

\* a handleFetch that stores the 502 it returns
FetchRejects_stores(r, err) ==
    LET q == req[r]
        elapsedMs == now - q.start
        resp == UpstreamFailedResponse(q.targetUrl, elapsedMs, err)
    IN  /\ NoneSettled
        /\ q.pc = "fetch"
        /\ cache' = MapSet(cache, q.targetUrl, resp)
        /\ req' = [req EXCEPT ![r] =
               Merge(q, [pc |-> "done", io |-> Append(q.io, "fetch"),
                         cacheWas |-> cache, failed |-> TRUE, resp |-> resp])]
        /\ UNCHANGED <<limiterVars, started, prev, guardVars, summaryVars, keyVars>>

\* fetch rejects: the catch of fetchWithTiming, then the 502 of handleFetch
FetchRejects(r, err) ==
    LET q == req[r]
        elapsedMs == now - q.start
    IN  /\ NoneSettled
        /\ q.pc = "fetch"
        /\ req' = [req EXCEPT ![r] =
               Merge(q, [pc |-> "done", io |-> Append(q.io, "fetch"),
                         cacheWas |-> cache, failed |-> TRUE,
                         resp |-> UpstreamFailedResponse(q.targetUrl, elapsedMs, err)])]
        /\ UNCHANGED <<limiterVars, cache, started, prev, guardVars, summaryVars, keyVars>>

\* upstream.text() resolves (ok) or rejects: the preview, then the response
TextSettles(r, ok) ==
    LET q == req[r]
        text == IF ok THEN Some(q.upstream.text) ELSE Null
        body == buildFetchSummary(q.targetUrl, q.upstream, q.elapsedMs, text)
    IN  /\ NoneSettled
        /\ q.pc = "text"
        /\ req' = [req EXCEPT ![r] =
               Merge(q, [pc |-> "put", io |-> Append(q.io, "text"),
                         resp |-> MissResponse(body, q.elapsedMs)])]
        /\ UNCHANGED <<limiterVars, cache, started, prev, guardVars, summaryVars, keyVars>>

\* a cache whose first entry for a key wins
CachePut_keepsFirst(r) ==
    LET q == req[r]
    IN  /\ NoneSettled
        /\ q.pc = "put"
        /\ cache' = IF q.targetUrl \in DOMAIN cache THEN cache
                    ELSE MapSet(cache, q.targetUrl, q.resp)
        /\ req' = [req EXCEPT ![r] =
               Merge(q, [pc |-> "done", io |-> Append(q.io, "put"),
                         cacheWas |-> cache])]
        /\ UNCHANGED <<limiterVars, started, prev, guardVars, summaryVars, keyVars>>

\* a handleFetch that stores the response under a HIT marker
CachePut_storesMarked(r) ==
    LET q == req[r]
    IN  /\ NoneSettled
        /\ q.pc = "put"
        /\ cache' = MapSet(cache, q.targetUrl, withHeader(q.resp, "X-Cache", "HIT"))
        /\ req' = [req EXCEPT ![r] =
               Merge(q, [pc |-> "done", io |-> Append(q.io, "put"),
                         cacheWas |-> cache])]
        /\ UNCHANGED <<limiterVars, started, prev, guardVars, summaryVars, keyVars>>

\* cache.put resolves: the clone is stored and the response returned
CachePut(r) ==
    LET q == req[r]
    IN  /\ NoneSettled
        /\ q.pc = "put"
        /\ cache' = MapSet(cache, q.targetUrl, q.resp)
        /\ req' = [req EXCEPT ![r] =
               Merge(q, [pc |-> "done", io |-> Append(q.io, "put"),
                         cacheWas |-> cache])]
        /\ UNCHANGED <<limiterVars, started, prev, guardVars, summaryVars, keyVars>>

\* cache.put rejects: nothing in handleFetch catches it
CachePutThrows(r) ==
    /\ NoneSettled
    /\ req[r].pc = "put"
    /\ req' = [req EXCEPT ![r] =
           Merge(req[r], [pc |-> "threw", io |-> Append(req[r].io, "put"),
                          cacheWas |-> cache])]
    /\ UNCHANGED <<limiterVars, cache, started, prev, guardVars, summaryVars, keyVars>>

\* which of its results the fetch handler ended a settled request with
ClassOf(q) ==
    IF q.pc = "threw" THEN "unhandled"
    ELSE IF q.limited THEN "rate-limited"
    ELSE IF q.io = <<>>
    THEN IF IsNull(ValidatedTargets[q.target]) THEN "bad-request"
         ELSE "blocked-target"
    ELSE IF "failed" \in DOMAIN q THEN "upstream-error"
    ELSE IF q.io = <<"match">> THEN "cache-hit"
    ELSE "miss-success"

\* what is remembered of a settled request once it is answered
Outcome(q) ==
    [k \in {"pc", "class"} \cup (DOMAIN q \cap {"io", "targetUrl", "resp"}) |->
        IF k = "class" THEN ClassOf(q) ELSE q[k]]

\* the response (or the exception) has left the worker
Deliver(r) ==
    /\ Settled(r)
    /\ req' = [req EXCEPT ![r] = Idle]
    /\ prev' = Outcome(req[r])
    /\ UNCHANGED <<limiterVars, cache, started, guardVars, summaryVars, keyVars>>

\* the cache drops an entry (max-age=60 has passed, or eviction)
CacheEvict(u) ==
    /\ NoneSettled
    /\ u \in DOMAIN cache
    /\ cache' = [k \in DOMAIN cache \ {u} |-> cache[k]]
    /\ UNCHANGED <<limiterVars, req, started, prev, guardVars, summaryVars, keyVars>>

\* the clock moves on while an origin fetch is in flight
TickIo ==
    /\ NoneSettled
    /\ \E r \in Reqs : req[r].pc = "fetch"
    /\ now + TickMs <= MaxIoTicks * TickMs
    /\ now' = now + TickMs
    /\ UNCHANGED <<RATE_LIMIT_STORE, limits, last, hist, recent, pipelineVars, guardVars, summaryVars, keyVars>>

(***************************************************************************)
(* The worker starts with an empty counter table and an empty cache.  To   *)
(* bring the router's quota of 20 within MaxStarted requests, a behaviour  *)
(* may also start after RouterMaxRequests - 1 requests of one client that  *)
(* were all received at time 0 and answered bad_request.                   *)
(***************************************************************************)
BusyClient == CHOOSE h \in HeaderCases : ~IsNull(h.cfip)

WarmStore ==
    MapSet(<<>>, clientKey(BusyClient),
           [windowStartMs |-> 0, count |-> RouterMaxRequests - 1])

WarmHist ==
    MapSet(<<>>, clientKey(BusyClient),
           [start |-> 0, calls |-> RouterMaxRequests - 1,
            allowedCalls |-> RouterMaxRequests - 1, rejectedCalls |-> 0,
            due |-> Null, dueQuiet |-> Null])

Init ==
    /\ now = 0
    /\ \/ RATE_LIMIT_STORE = <<>> /\ hist = <<>>
       \/ RATE_LIMIT_STORE = WarmStore /\ hist = WarmHist
    /\ limits = <<RouterMaxRequests, RouterWindowSeconds>>
    /\ last = NoCall
    /\ cache = <<>>
    /\ req = [r \in Reqs |-> Idle]
    /\ started = 0
    /\ guardIn = ""
    /\ guardOut = Null
    /\ recent = <<>>
    /\ prev = Idle
    /\ summaryIn = Null
    /\ summaryOut = Null
    /\ keyIn = Null
    /\ keyOut = Null

Next ==
    \/ \E r \in Reqs, request \in HeaderCases, target \in TargetCases :
           StartFetch(r, request, target)
    \/ \E r \in Reqs : CacheMatch(r)
    \/ \E r \in Reqs : CacheMatchThrows(r)
    \/ \E r \in Reqs, upstream \in OriginCases : FetchResolves(r, upstream)
    \/ \E r \in Reqs, err \in FetchErrors : FetchRejects(r, err)
    \/ \E r \in Reqs, ok \in BOOLEAN : TextSettles(r, ok)
    \/ \E r \in Reqs : CachePut(r)
    \/ \E r \in Reqs : CachePutThrows(r)
    \/ \E r \in Reqs : Deliver(r)
    \/ \E u \in DOMAIN cache : CacheEvict(u)
    \/ TickIo
    \/ \E route \in RouteCases, request \in HeaderCases :
           OtherRoute(route[1], route[2], request)

Spec == Init /\ [][Next]_vars

(***************************************************************************)
(* The limiter on its own: checkRateLimit called directly.                 *)
(***************************************************************************)
LimitCases == {<<1, 1>>, <<2, 1>>, <<3, 2>>}

InitRL ==
    /\ now = 0
    /\ RATE_LIMIT_STORE = <<>>
    /\ limits \in LimitCases
    /\ last = NoCall
    /\ hist = <<>>
    /\ cache = <<>>
    /\ req = [r \in Reqs |-> Idle]
    /\ started = 0
    /\ guardIn = ""
    /\ guardOut = Null
    /\ recent = <<>>
    /\ prev = Idle
    /\ summaryIn = Null
    /\ summaryOut = Null
    /\ keyIn = Null
    /\ keyOut = Null

Tick ==
    /\ now + TickMs <= MaxNow
    /\ now' = now + TickMs
    /\ UNCHANGED <<RATE_LIMIT_STORE, limits, last, hist, recent, pipelineVars, guardVars, summaryVars, keyVars>>

CallCheckRateLimit(request) ==
    LET key == clientKey(request)
        res == checkRateLimit(request, limits[1], limits[2])
    IN  /\ CallsLeft(key, limits[2] * MsPerSecond)
        /\ RATE_LIMIT_STORE' = res.store
        /\ last' = LastOf(key, limits[1], limits[2], res)
        /\ hist' = HistAfter(key, limits[2] * MsPerSecond, res)
        /\ UNCHANGED <<now, limits, recent, pipelineVars, guardVars, summaryVars, keyVars>>

NextRL ==
    \/ Tick
    \/ \E request \in HeaderCases : CallCheckRateLimit(request)

SpecRL == InitRL /\ [][NextRL]_vars

(***************************************************************************)
(* The limiter on its own, observed through the times of its allowed calls.*)
(***************************************************************************)
CallAndTime(request) ==
    LET key == clientKey(request)
        res == checkRateLimit(request, limits[1], limits[2])
    IN  /\ RATE_LIMIT_STORE' = res.store
        /\ recent' = RecentAfter(key, limits[2] * MsPerSecond, res)
        /\ UNCHANGED <<now, limits, last, hist, pipelineVars, guardVars, summaryVars, keyVars>>

NextBurst ==
    \/ Tick
    \/ \E request \in HeaderCases : CallAndTime(request)

SpecBurst == InitRL /\ [][NextBurst]_vars

(***************************************************************************)
(* The limiter on its own under a clock that may also go back.             *)
(***************************************************************************)
TickBack ==
    /\ now >= TickMs
    /\ now' = now - TickMs
    /\ UNCHANGED <<RATE_LIMIT_STORE, limits, last, hist, recent, pipelineVars, guardVars, summaryVars, keyVars>>

CallUnderSkew(request) ==
    LET key == clientKey(request)
        res == checkRateLimit(request, limits[1], limits[2])
    IN  /\ RATE_LIMIT_STORE' = res.store
        /\ last' = LastOf(key, limits[1], limits[2], res)
        /\ UNCHANGED <<now, limits, hist, recent, pipelineVars, guardVars, summaryVars, keyVars>>

NextClock ==
    \/ Tick
    \/ TickBack
    \/ \E request \in HeaderCases : CallUnderSkew(request)

SpecClock == InitRL /\ [][NextClock]_vars

(***************************************************************************)
(* The SSRF guard on its own: isBlockedHost applied to a hostname and to   *)
(* its upper-case and lower-case variants.                                 *)
(***************************************************************************)
HostCases ==
    { "localhost", "LocalHost", "localhost.", "localhost.example.com", "mylocalhost",
      "127.0.0.1", "127.0.0.2", "::1", "[::1]", "::2",
      "10.0.0.1", "10.evil.com", "10", "110.0.0.1", "1.10.0.0",
      "192.168.0.1", "192.168.", "192.168", "192.169.0.1", "192.16.8.1",
      "172.16", "172.", "172", "172.abc.1.1", "172.ABC.1.1", "172..16.1",
      "172.0x10.1.1", "172.0X1F.1.1", "172.0x20.1.1", "172.016.1.1",
      "172.2e1.1.1", "172.165e-1.1.1", "172.-16.1.1", "172.+16.1.1",
      "172.16a.1.1", "1172.16.0.1", "172-16.0.1", "a.172.16.0.1",
      "example.com", "EXAMPLE.COM", "" }

HostInputs ==
    HostCases \cup { "172." \o String(x) \o ".0.1" : x \in 0..MaxOctet }

InitGuard ==
    /\ guardIn \in HostInputs
    /\ guardOut = Null
    /\ recent = <<>>
    /\ prev = Idle
    /\ summaryIn = Null
    /\ summaryOut = Null
    /\ keyIn = Null
    /\ keyOut = Null
    /\ now = 0
    /\ RATE_LIMIT_STORE = <<>>
    /\ limits = <<RouterMaxRequests, RouterWindowSeconds>>
    /\ last = NoCall
    /\ hist = <<>>
    /\ cache = <<>>
    /\ req = [r \in Reqs |-> Idle]
    /\ started = 0

ApplyIsBlockedHost ==
    /\ IsNull(guardOut)
    /\ guardOut' = Some([asGiven |-> isBlockedHost(guardIn),
                         upper |-> isBlockedHost(toUpperCase(guardIn)),
                         lower |-> isBlockedHost(toLowerCase(guardIn))])
    /\ UNCHANGED <<guardIn, limiterVars, pipelineVars, summaryVars, keyVars>>

NextGuard == ApplyIsBlockedHost

SpecGuard == InitGuard /\ [][NextGuard]_vars

(***************************************************************************)
(* Properties of the rate limiter.                                         *)
(***************************************************************************)
LastWindowMs == last.windowSeconds * MsPerSecond

\* C1: within one window of a key (from the call that started it until
\* windowSeconds have elapsed since that call) the first maxRequests calls
\* are allowed and every later call of the window is rejected.
C1_WindowQuota ==
    /\ last.called =>
           (last.allowed <=> hist[last.key].calls <= last.maxRequests)
    /\ \A k \in DOMAIN hist :
           /\ hist[k].allowedCalls = Min(hist[k].calls, limits[1])
           /\ hist[k].rejectedCalls = hist[k].calls - hist[k].allowedCalls

\* C1 witness: the call after the quota of a window is used up is rejected,
\* all maxRequests >= 2 calls before it in the window having been allowed.
C1_Witness ==
    /\ last.called /\ ~last.allowed
    /\ last.maxRequests >= 2
    /\ hist[last.key].calls = last.maxRequests + 1
    /\ hist[last.key].allowedCalls = last.maxRequests

LastExpired ==
    \/ ~last.hadEntry
    \/ last.at - Val(last.prevEntry).windowStartMs >= LastWindowMs

\* C2: a call for a key with no entry, or whose entry has
\* now - windowStart >= windowMs, overwrites the entry with
\* {windowStart: now, count: 1} and is allowed, whatever the count before,
\* the rejections of the old window and maxRequests.
C2_ResetOnExpiry ==
    (last.called /\ LastExpired) =>
        /\ last.allowed
        /\ last.retryAfterSeconds = 0
        /\ RATE_LIMIT_STORE[last.key] =
               [windowStartMs |-> last.at, count |-> 1]

\* C2 witness: a key whose window was full and had rejected calls is allowed
\* on a call made exactly windowMs after the window's start.
C2_Witness ==
    /\ last.called /\ last.hadEntry /\ last.allowed
    /\ last.at - Val(last.prevEntry).windowStartMs = LastWindowMs
    /\ Val(last.prevEntry).count = last.maxRequests
    /\ last.prevRejected > 0
    /\ RATE_LIMIT_STORE[last.key].count = 1

\* The time left in the window the rejected call fell in.
LastRemainingMs ==
    LastWindowMs - (last.at - Val(last.prevEntry).windowStartMs)

\* retryAfterSeconds is the remaining time rounded up to whole seconds.
RetryIsCeil ==
    (last.called /\ ~last.allowed) =>
        /\ last.hadEntry
        /\ last.retryAfterSeconds * MsPerSecond >= LastRemainingMs
        /\ (last.retryAfterSeconds - 1) * MsPerSecond < LastRemainingMs

\* C3 as stated: every rejection carries the remaining window time rounded
\* up to seconds, and a call made retryAfterSeconds seconds after the
\* rejection (the key's first call at or after that time) is allowed.
C3_Original ==
    /\ RetryIsCeil
    /\ (last.called /\ ~IsNull(last.prevDue) /\ last.at >= Val(last.prevDue))
           => last.allowed

\* C3 amended: every rejection carries the remaining window time rounded up
\* to seconds, and a call made retryAfterSeconds seconds or more after a
\* rejection is allowed when no call of that key was allowed in between.
C3_RetryAfter ==
    /\ RetryIsCeil
    /\ (last.called /\ ~IsNull(last.prevDueQuiet)
                    /\ last.at >= Val(last.prevDueQuiet))
           => last.allowed

\* C3 witness: a key rejected with retryAfterSeconds rounded up past the end
\* of its window waits out the delay and is allowed.
C3_Witness ==
    /\ last.called /\ last.allowed
    /\ ~IsNull(last.prevDueQuiet)
    /\ last.at = Val(last.prevDueQuiet)
    /\ last.at > Val(last.prevEntry).windowStartMs + LastWindowMs
    /\ last.prevRejected > 0

(***************************************************************************)
(* Properties of handleFetch: validation and the SSRF guard.               *)
(***************************************************************************)
\* a request that the router handed to handleFetch
Handled(r) == req[r] # Idle /\ ~req[r].limited

\* a request that handleFetch answered before its first await
Answered(r) == Handled(r) /\ req[r].pc = "done" /\ req[r].io = <<>>

\* a request that went past the guard: suspended at an await of the
\* pipeline, or settled after one
PastGuard(r) == "targetUrl" \in DOMAIN req[r]

\* the url parameters that are absent, empty, not parseable as an absolute
\* URL (no scheme, or a host the URL parser rejects) or not https
InvalidTargets ==
    { Null, Some(""), Some("not a url"), Some("//example.com"),
      Some("https://172.abc.1.1/"),
      Some("http://example.com/"), Some("ftp://example.com/") }

\* C4: a /fetch request whose url parameter is absent, empty, not parseable
\* as an absolute URL or of a scheme other than https gets the 400
\* bad_request response, and no cache lookup, origin fetch or cache store is
\* made for it.
C4_InvalidTarget ==
    \A r \in Reqs :
        (Handled(r) /\ req[r].target \in InvalidTargets) =>
            /\ Answered(r)
            /\ req[r].resp.status = 400
            /\ req[r].resp.body.error = "bad_request"
            /\ req[r].resp = BadRequestResponse
            /\ req[r].io = <<>>
            /\ cache = req[r].cacheWas

\* C4 witness: a plain http target is answered bad_request while the cache
\* holds an entry, which stays as it was.
C4_Witness ==
    \E r \in Reqs :
        /\ Answered(r)
        /\ req[r].target = Some("http://example.com/")
        /\ req[r].resp.body.error = "bad_request"
        /\ req[r].io = <<>>
        /\ cache # <<>>
        /\ cache = req[r].cacheWas

\* the targets that are valid and whose hostname isBlockedHost blocks, and
\* the cache keys they would have
GuardedTargets ==
    { t \in TargetCases \ InvalidTargets :
        isBlockedHost(Val(getValidatedHttpsUrl(t)).hostname) }

GuardedUrls == { UrlToString(Val(getValidatedHttpsUrl(t))) : t \in GuardedTargets }

\* C5: no cache lookup, origin fetch or cache store is made for a target
\* whose hostname isBlockedHost blocks: the request gets the 400
\* blocked_target response and the cache stays as it was, so no request is
\* ever past the guard with such a target and the cache never has its key.
C5_BlockedTarget ==
    /\ \A r \in Reqs :
           (Handled(r) /\ req[r].target \in GuardedTargets) =>
               /\ Answered(r)
               /\ req[r].resp.status = 400
               /\ req[r].resp.body.error = "blocked_target"
               /\ req[r].resp = BlockedTargetResponse
               /\ req[r].io = <<>>
               /\ cache = req[r].cacheWas
    /\ \A r \in Reqs : PastGuard(r) => req[r].targetUrl \notin GuardedUrls
    /\ DOMAIN cache \cap GuardedUrls = {}

\* C5 witness: a target in 172.16.0.0/12 written with a hexadecimal octet
\* is answered blocked_target while the cache holds an entry, which stays.
C5_Witness ==
    \E r \in Reqs :
        /\ Answered(r)
        /\ req[r].target = Some("https://172.0x1f.0.1/")
        /\ req[r].resp.body.error = "blocked_target"
        /\ req[r].io = <<>>
        /\ cache # <<>>
        /\ cache = req[r].cacheWas

(***************************************************************************)
(* Properties of isBlockedHost.                                            *)
(***************************************************************************)
\* the second dot-separated segment of h parses as a number in 16..31
SecondSegmentPrivate(h) ==
    LET segments == split(h, ".")
        x == StringToNumber(segments[2])
    IN  /\ Len(segments) >= 2
        /\ ~IsNull(x)
        /\ 16 * Val(x).den <= Val(x).num
        /\ Val(x).num <= 31 * Val(x).den

\* the hostnames C6 says are blocked
ListedAsBlocked(h) ==
    LET l == toLowerCase(h)
    IN  \/ l \in {"localhost", "127.0.0.1", "::1"}
        \/ startsWith(l, "10.")
        \/ startsWith(l, "192.168.")
        \/ startsWith(l, "172.") /\ SecondSegmentPrivate(l)

\* C6: isBlockedHost(h) is true exactly when lower-case(h) is localhost,
\* 127.0.0.1 or ::1, starts with 10. or 192.168., or starts with 172. and
\* has a second segment that parses as a number in 16..31; it is false for
\* 172.15.x, 172.32.x and 172.abc.1.1, and the same for h in any letter case.
C6_BlockedHosts ==
    ~IsNull(guardOut) =>
        /\ Val(guardOut).asGiven <=> ListedAsBlocked(guardIn)
        /\ (\/ startsWith(guardIn, "172.15.")
            \/ startsWith(guardIn, "172.32.")
            \/ guardIn = "172.abc.1.1") => ~Val(guardOut).asGiven
        /\ Val(guardOut).upper = Val(guardOut).asGiven
        /\ Val(guardOut).lower = Val(guardOut).asGiven

\* C6 witness: the two ends of 172.16.0.0/12 are blocked, the latter also
\* when its octet is written in upper-case hexadecimal.
C6_Witness ==
    /\ ~IsNull(guardOut)
    /\ guardIn \in {"172.16.0.1", "172.0X1F.1.1"}
    /\ Val(guardOut).asGiven
    /\ Val(guardOut).upper

(***************************************************************************)
(* Properties of handleFetch: the cache and the origin.                    *)
(***************************************************************************)
\* C7 on one step: request r was waiting for its cache lookup, which found
\* a stored response
C7_Step(r) ==
    (/\ req[r].pc = "match"
     /\ req'[r].pc \notin {"match", "threw"}
     /\ req[r].targetUrl \in DOMAIN cache) =>
        LET stored == cache[req[r].targetUrl]
            out == req'[r]
        IN  /\ out.pc = "done"
            /\ out.io = <<"match">>
            /\ cache' = cache
            /\ out.resp.status = stored.status
            /\ out.resp.body = stored.body
            /\ DOMAIN out.resp.headers = DOMAIN stored.headers
            /\ \A k \in DOMAIN stored.headers \ {"X-Cache"} :
                   out.resp.headers[k] = stored.headers[k]
            /\ stored.headers["X-Cache"] = "MISS"
            /\ out.resp.headers["X-Cache"] = "HIT"

\* C7: when the cache lookup returns a stored response, the request makes no
\* origin fetch and no cache store, and returns the stored status, body and
\* headers with X-Cache set to HIT in place of the stored MISS.
C7_CacheHit == [][\A r \in Reqs : C7_Step(r)]_vars

\* C7 witness: a request answered from the cache after its lookup alone,
\* with the stored body and the HIT marker.
C7_Witness ==
    \E r \in Reqs :
        /\ req[r].pc = "done" /\ req[r].io = <<"match">>
        /\ req[r].targetUrl \in DOMAIN cache
        /\ req[r].resp.body = cache[req[r].targetUrl].body
        /\ req[r].resp.headers["X-Cache"] = "HIT"
        /\ cache[req[r].targetUrl].headers["X-Cache"] = "MISS"
        /\ cache = req[r].cacheWas

\* the capabilities a request has used when its miss path has run to the end
MissPathIo == { <<"match", "fetch", "put">>, <<"match", "fetch", "text", "put">> }

\* the headers of the response handleFetch builds on the miss path
IsMissResponse(resp) ==
    /\ resp.status = 200
    /\ resp.headers["X-Cache"] = "MISS"
    /\ resp.headers["Cache-Control"] = "public, max-age=60"

\* C8 on one step, the store: an entry that is new or has changed
StoredBy(u) ==
    \E r \in Reqs :
        /\ req[r].pc = "put" /\ req[r].targetUrl = u
        /\ req[r].io \in { <<"match", "fetch">>, <<"match", "fetch", "text">> }
        /\ "resp" \in DOMAIN req[r]
        /\ req'[r].pc = "done"
        /\ req'[r].io = Append(req[r].io, "put")
        /\ req'[r].resp = req[r].resp
        /\ cache'[u] = req'[r].resp
        /\ IsMissResponse(cache'[u])
        /\ cache'[u].body.status = req[r].upstream.status

\* C8 on one step, the return: request r returns from the miss path
ReturnsStored(r) ==
    (req[r].pc = "put" /\ req'[r].pc = "done") =>
        /\ req'[r].io \in MissPathIo
        /\ req'[r].targetUrl \in DOMAIN cache'
        /\ cache'[req'[r].targetUrl] = req'[r].resp
        /\ IsMissResponse(req'[r].resp)

\* C8: on the miss path the stored response is the very response the request
\* returns (status 200, its body, its headers with X-Cache: MISS and
\* Cache-Control: public, max-age=60); the store comes after the request's
\* origin fetch and summary and before its return, and the request makes no
\* store before that: every entry that appears or changes in the cache is
\* stored by a request at the end of its miss path.
C8_StoreOnMiss ==
    [][/\ \A u \in DOMAIN cache' :
              (u \notin DOMAIN cache \/ cache'[u] # cache[u]) => StoredBy(u)
       /\ \A r \in Reqs : ReturnsStored(r)
       /\ \A r \in Reqs :
              (req'[r].pc \in {"match", "fetch", "text", "put"}) =>
                  (\A i \in 1..Len(req'[r].io) : req'[r].io[i] # "put")]_vars

\* C8 witness: a request that fetched, read the text for its preview, stored
\* and returned; the cache entry is its response.
C8_Witness ==
    \E r \in Reqs :
        /\ req[r].pc = "done"
        /\ req[r].io = <<"match", "fetch", "text", "put">>
        /\ req[r].resp.body.preview = Some("hello")
        /\ req[r].resp.headers["X-Cache"] = "MISS"
        /\ req[r].targetUrl \notin DOMAIN req[r].cacheWas
        /\ cache[req[r].targetUrl] = req[r].resp

\* a request whose origin fetch rejected
FetchFailed(r) == req[r].pc = "done" /\ "failed" \in DOMAIN req[r]

FetchSucceeded(r) == "upstream" \in DOMAIN req[r]

\* C10: when the origin answers with any status, 4xx and 5xx included, the
\* request takes the success branch: it is never answered 502, it returns
\* 200 with the origin's status in the body's status field, and that
\* response is stored in the cache with the headers of every miss response.
C10_AnyOriginStatus ==
    \A r \in Reqs :
        FetchSucceeded(r) =>
            /\ req[r].pc \in {"text", "put", "done", "threw"}
            /\ "failed" \notin DOMAIN req[r]
            /\ "resp" \in DOMAIN req[r] =>
                   /\ req[r].resp.status = 200
                   /\ req[r].resp.body.status = req[r].upstream.status
                   /\ req[r].resp.body.contentType = req[r].upstream.contentType
                   /\ IsMissResponse(req[r].resp)
                   /\ req[r].resp.headers["X-Edge-Fetch-Ms"] = String(req[r].elapsedMs)
                   /\ req[r].resp.headers["Content-Type"] =
                          "application/json; charset=utf-8"
            /\ req[r].pc = "done" =>
                   /\ req[r].io \in MissPathIo
                   /\ cache[req[r].targetUrl] = req[r].resp

\* C10 witness: an origin that answered 503 and one that answered 404 are
\* both reported with status 200 and stored.
C10_Witness ==
    \E r \in Reqs :
        /\ req[r].pc = "done" /\ FetchSucceeded(r)
        /\ req[r].upstream.status = 503
        /\ req[r].resp.status = 200
        /\ req[r].resp.body.status = 503
        /\ cache[req[r].targetUrl] = req[r].resp
        /\ \E u \in DOMAIN cache : cache[u].body.status = 404

(***************************************************************************)
(* Properties of handleFetch: requests in sequence.                        *)
(***************************************************************************)
\* how many times capability c occurs in io
Uses(io, c) == Cardinality({i \in 1..Len(io) : io[i] = c})

\* request r was received after the answer to a request that took the miss
\* path to its end for the same target, and no other request was received
FollowsMiss(r) ==
    /\ "follows" \in DOMAIN req[r]
    /\ started = 2
    /\ "class" \in DOMAIN req[r].follows
    /\ req[r].follows.class = "miss-success"
    /\ req[r].follows.targetUrl = req[r].targetUrl

\* C11: of two /fetch requests in sequence for a target that is not cached,
\* the first one's fetch succeeding and the cache keeping the entry, the
\* first is answered MISS and the second HIT; one origin fetch is made in
\* all, and the HIT body is the MISS body.
C11_MissThenHit ==
    \A r \in Reqs :
        (/\ FollowsMiss(r)
         /\ req[r].pc = "done"
         /\ req[r].targetUrl \in DOMAIN req[r].cacheWas) =>
            /\ req[r].follows.io \in MissPathIo
            /\ req[r].follows.resp.status = 200
            /\ req[r].follows.resp.headers["X-Cache"] = "MISS"
            /\ req[r].io = <<"match">>
            /\ req[r].resp.status = 200
            /\ req[r].resp.headers["X-Cache"] = "HIT"
            /\ req[r].resp.body = req[r].follows.resp.body
            /\ Uses(req[r].follows.io, "fetch") + Uses(req[r].io, "fetch") = 1

\* C11 witness: the second request, written in another letter case, is
\* answered HIT with the body the first was answered with, preview included.
C11_Witness ==
    \E r \in Reqs :
        /\ FollowsMiss(r)
        /\ req[r].pc = "done"
        /\ req[r].target = Some("HTTPS://EXAMPLE.COM/")
        /\ req[r].resp.headers["X-Cache"] = "HIT"
        /\ req[r].resp.body = req[r].follows.resp.body
        /\ req[r].resp.body.preview = Some("hello")

(***************************************************************************)
(* Properties of the rate limiter: bursts.                                 *)
(***************************************************************************)
\* C12: for a key and maxRequests >= 1, the allowed calls whose times lie in
\* an interval no longer than windowMs number at most 2 * maxRequests.  (An
\* interval holding the most allowed calls ends at an allowed call, and
\* recent[k] is the content of the interval of length windowMs ending at the
\* latest one.)
C12_BurstBound ==
    \A k \in DOMAIN recent :
        /\ Len(recent[k]) <= 2 * limits[1]
        /\ \A i \in 1..Len(recent[k]) :
               recent[k][Len(recent[k])] - recent[k][i] <= limits[2] * MsPerSecond

\* C12 witness: the bound is reached across a window boundary, with
\* maxRequests >= 2: a full window, then a full window started exactly
\* windowMs after the first of these calls.
C12_Witness ==
    \E k \in DOMAIN recent :
        /\ limits[1] >= 2
        /\ Len(recent[k]) = 2 * limits[1]
        /\ recent[k][Len(recent[k])] - recent[k][1] = limits[2] * MsPerSecond
        /\ RATE_LIMIT_STORE[k].count = limits[1]

(***************************************************************************)
(* Properties of handleFetch: failures of the capabilities.                *)
(***************************************************************************)
\* the statuses of the structured results
StructuredStatuses == {400, 429, 502, 200}

\* C13: every /fetch request ends with one structured JSON result (400,
\* 429, 502 or 200) and never with an unhandled exception, whichever
\* capability fails: the cache lookup, the origin fetch (502), the body read
\* for the preview (200 with preview null) or the cache store.
C13_AlwaysStructured ==
    \A r \in Reqs :
        /\ req[r].pc # "threw"
        /\ req[r].pc = "done" =>
               /\ req[r].resp.status \in StructuredStatuses
               /\ "failed" \in DOMAIN req[r] => req[r].resp.status = 502

\* the part of C13 the code keeps: a rejected fetch gives 502 and a rejected
\* body read gives 200 with preview null, both structured
C13_CaughtFailures ==
    \A r \in Reqs :
        /\ req[r].pc = "done" => req[r].resp.status \in StructuredStatuses
        /\ (req[r].pc = "done" /\ "failed" \in DOMAIN req[r]) =>
               req[r].resp.status = 502
        /\ (req[r].pc \in {"put", "done", "threw"} /\ "upstream" \in DOMAIN req[r]
                /\ Uses(req[r].io, "text") = 1
                /\ req[r].resp.body.preview = Null) =>
               req[r].resp.status = 200

(***************************************************************************)
(* Properties of the results: status and marker.                           *)
(***************************************************************************)
\* the X-Cache marker of a response, Null when it has none
Marker(resp) ==
    IF "X-Cache" \in DOMAIN resp.headers THEN Some(resp.headers["X-Cache"]) ELSE Null

\* what tells results apart without reading the body
Signature(resp) == <<resp.status, Marker(resp)>>

ResultClasses ==
    {"bad-request", "blocked-target", "rate-limited", "upstream-error",
     "miss-success", "cache-hit"}

\* request r is answered, and so was a request before it
AnsweredAfterAnother(r) ==
    /\ req[r].pc = "done"
    /\ "resp" \in DOMAIN prev
    /\ ClassOf(req[r]) \in ResultClasses
    /\ prev.class \in ResultClasses

\* C14 as stated: results of two different classes (bad-request,
\* blocked-target, rate-limited, upstream-error, miss success, cache hit)
\* differ in the pair (status, X-Cache marker).
C14_Original ==
    \A r \in Reqs :
        (AnsweredAfterAnother(r) /\ ClassOf(req[r]) # prev.class) =>
            Signature(req[r].resp) # Signature(prev.resp)

\* C14 amended: results of two different classes differ in the pair
\* (status, X-Cache marker), except bad-request and blocked-target, which
\* are both 400 without marker and differ in the error field of the body.
C14_StatusAndMarker ==
    \A r \in Reqs :
        (AnsweredAfterAnother(r) /\ ClassOf(req[r]) # prev.class) =>
            IF {ClassOf(req[r]), prev.class} = {"bad-request", "blocked-target"}
            THEN /\ Signature(req[r].resp) = <<400, Null>>
                 /\ Signature(prev.resp) = <<400, Null>>
                 /\ req[r].resp.body.error # prev.resp.body.error
            ELSE Signature(req[r].resp) # Signature(prev.resp)

\* C14 witness: a cache hit answered after a miss success: both are 200 and
\* the marker alone tells them apart.
C14_Witness ==
    \E r \in Reqs :
        /\ AnsweredAfterAnother(r)
        /\ ClassOf(req[r]) = "cache-hit" /\ prev.class = "miss-success"
        /\ req[r].resp.status = prev.resp.status
        /\ Signature(req[r].resp) = <<200, Some("HIT")>>
        /\ Signature(prev.resp) = <<200, Some("MISS")>>

(***************************************************************************)
(* buildFetchSummary on its own: applied to an origin response of a given  *)
(* content type and body.                                                  *)
(***************************************************************************)
\* a body of n characters, no two neighbours alike
BodyBlock == "0123456789abcdefghijklmnopqrstuvwxyzABCDEFGHIJKLMN"

RECURSIVE Body(_)
Body(n) ==
    IF n <= Len(BodyBlock) THEN SubSeq(BodyBlock, 1, n)
    ELSE BodyBlock \o Body(n - Len(BodyBlock))

BodyLengths ==
    (0..MaxShortBody) \cup ((PreviewLimit - MaxOverflow)..(PreviewLimit + MaxOverflow))

ContentTypeCases ==
    { Null, Some(""), Some("text"), Some("text/plain"), Some("text/html; charset=utf-8"),
      Some("TEXT/PLAIN"), Some("atext/plain"), Some("application/json"),
      Some("application/json; charset=utf-8"), Some("x, application/json"),
      Some("application/problem+json"), Some("application/octet-stream"),
      Some("image/png") }

Bodies == [n \in BodyLengths |-> Body(n)]

InitSummary ==
    /\ summaryIn \in { Some([contentType |-> c, length |-> n, readable |-> b]) :
                          c \in ContentTypeCases, n \in BodyLengths, b \in BOOLEAN }
    /\ summaryOut = Null
    /\ guardIn = ""
    /\ guardOut = Null
    /\ recent = <<>>
    /\ prev = Idle
    /\ keyIn = Null
    /\ keyOut = Null
    /\ now = 0
    /\ RATE_LIMIT_STORE = <<>>
    /\ limits = <<RouterMaxRequests, RouterWindowSeconds>>
    /\ last = NoCall
    /\ hist = <<>>
    /\ cache = <<>>
    /\ req = [r \in Reqs |-> Idle]
    /\ started = 0

ApplyBuildFetchSummary ==
    LET in == Val(summaryIn)
        upstream == [status |-> StatusOk, contentType |-> in.contentType,
                     text |-> Bodies[in.length]]
        text == IF in.readable THEN Some(upstream.text) ELSE Null
    IN  /\ IsNull(summaryOut)
        /\ summaryOut' = Some(buildFetchSummary("https://example.com/", upstream, 0, text))
        /\ UNCHANGED <<summaryIn, limiterVars, pipelineVars, guardVars, keyVars>>

NextSummary == ApplyBuildFetchSummary

SpecSummary == InitSummary /\ [][NextSummary]_vars

\* the content types C15 gives a preview for
NamedPreviewable(c) ==
    /\ ~IsNull(c)
    /\ \/ Len(Val(c)) >= 5 /\ SubSeq(Val(c), 1, 5) = "text/"
       \/ \E i \in 1..(Len(Val(c)) - 15) : SubSeq(Val(c), i, i + 15) = "application/json"

\* C15: for a content type that starts with text/ or contains
\* application/json, the preview is the first min(length, 300) characters of
\* the body (a body read in full): exactly 300 characters of a longer body,
\* and a body of 300 characters as it is; for any other content type, or
\* none, the preview is null whatever the length of the body.
C15_Preview ==
    (~IsNull(summaryOut) /\ Val(summaryIn).readable) =>
        LET in == Val(summaryIn)
            text == Bodies[in.length]
            preview == Val(summaryOut).preview
        IN  IF NamedPreviewable(in.contentType)
            THEN /\ ~IsNull(preview)
                 /\ Len(Val(preview)) = IF in.length < 300 THEN in.length ELSE 300
                 /\ SubSeq(text, 1, Len(Val(preview))) = Val(preview)
                 /\ in.length > 300 => Len(Val(preview)) = 300 /\ Val(preview) # text
                 /\ in.length = 300 => Val(preview) = text
            ELSE IsNull(preview)

\* C15 witness: a text/plain body of 301 characters gives a preview of 300.
C15_Witness ==
    /\ ~IsNull(summaryOut)
    /\ Val(summaryIn) = [contentType |-> Some("text/plain"), length |-> 301,
                         readable |-> TRUE]
    /\ Len(Val(Val(summaryOut).preview)) = 300

(***************************************************************************)
(* Properties of handleFetch: the loopback targets.                        *)
(***************************************************************************)
\* the targets that name the IPv6 loopback ::1
Ipv6LoopbackTargets == { Some("https://[::1]/") }

\* C16: a /fetch request whose target names the IPv6 loopback ::1 is
\* answered blocked_target, on the hostname the URL parser yields for it,
\* as one naming localhost or 127.0.0.1 is, and causes no origin fetch.
C16_Ipv6Loopback ==
    \A r \in Reqs :
        (Handled(r) /\ req[r].target \in Ipv6LoopbackTargets) =>
            /\ Answered(r)
            /\ req[r].resp = BlockedTargetResponse
            /\ req[r].io = <<>>

\* what holds of the other two loopback names: localhost and 127.0.0.1,
\* however written, are answered blocked_target
LoopbackNamesBlocked ==
    \A r \in Reqs :
        (Handled(r) /\ req[r].target \in
             { Some("https://localhost/"), Some("https://LocalHost:8443/x"),
               Some("https://127.1/") }) =>
            /\ Answered(r)
            /\ req[r].resp = BlockedTargetResponse

(***************************************************************************)
(* clientKey on its own: two requests, each handed to checkRateLimit once, *)
(* starting from an empty counter table.                                   *)
(***************************************************************************)
KeyCases ==
    { [cfip |-> a, xff |-> b, ua |-> c, country |-> d, colo |-> e] :
        a \in {Null, Some(""), Some("1.1.1.1")},
        b \in {Null, Some(""), Some("9.9.9.9")},
        c \in {Null, Some(""), Some("curl")},
        d \in {Null, Some("PT")},
        e \in {Null, Some("LIS")} }

InitKey ==
    /\ keyIn \in KeyCases \X KeyCases
    /\ keyOut = <<>>
    /\ summaryIn = Null
    /\ summaryOut = Null
    /\ guardIn = ""
    /\ guardOut = Null
    /\ recent = <<>>
    /\ prev = Idle
    /\ now = 0
    /\ RATE_LIMIT_STORE = <<>>
    /\ limits = <<RouterMaxRequests, RouterWindowSeconds>>
    /\ last = NoCall
    /\ hist = <<>>
    /\ cache = <<>>
    /\ req = [r \in Reqs |-> Idle]
    /\ started = 0

\* the next of the two requests is keyed and counted
CallForKey ==
    LET request == keyIn[Len(keyOut) + 1]
        res == checkRateLimit(request, limits[1], limits[2])
    IN  /\ Len(keyOut) < Len(keyIn)
        /\ keyOut' = Append(keyOut, clientKey(request))
        /\ RATE_LIMIT_STORE' = res.store
        /\ UNCHANGED <<keyIn, now, limits, last, hist, recent, pipelineVars,
                       guardVars, summaryVars>>

NextKey == CallForKey

SpecKey == InitKey /\ [][NextKey]_vars

\* a component, or its sentinel when it is missing
OrSentinel(o, sentinel) == IF IsNull(o) THEN sentinel ELSE Val(o)

\* ip|country|colo|user-agent
KeyOf(ip, request) ==
    ip \o "|" \o OrSentinel(request.country, "no-country")
       \o "|" \o OrSentinel(request.colo, "no-colo")
       \o "|" \o OrSentinel(request.ua, "no-ua")

\* cf-connecting-ip if present, else x-forwarded-for, else no-ip
IpIfPresent(request) ==
    IF ~IsNull(request.cfip) THEN Val(request.cfip)
    ELSE IF ~IsNull(request.xff) THEN Val(request.xff)
    ELSE "no-ip"

\* cf-connecting-ip if present and not empty, else x-forwarded-for if present
\* and not empty, else no-ip
IpIfNotEmpty(request) ==
    IF ~IsNull(request.cfip) /\ Val(request.cfip) # "" THEN Val(request.cfip)
    ELSE IF ~IsNull(request.xff) /\ Val(request.xff) # "" THEN Val(request.xff)
    ELSE "no-ip"

\* two requests with the same headers have one key and one counter, which
\* has counted both
SharedCounter ==
    (Len(keyOut) = 2 /\ keyIn[1] = keyIn[2]) =>
        /\ keyOut[1] = keyOut[2]
        /\ DOMAIN RATE_LIMIT_STORE = {keyOut[1]}
        /\ RATE_LIMIT_STORE[keyOut[1]].count = 2

InFlight(r) == req[r].pc \in {"match", "fetch", "text", "put"}

\* C18: with /fetch requests in flight together, suspended only at the
\* cache lookup, the origin fetch, the body read and the cache store, no
\* update of the counter table is lost: each entry's count is the number of
\* requests of its key allowed since the entry's windowStart.
C18_NoLostIncrement ==
    /\ \A k \in DOMAIN RATE_LIMIT_STORE :
           /\ k \in DOMAIN hist
           /\ RATE_LIMIT_STORE[k].windowStartMs = hist[k].start
           /\ RATE_LIMIT_STORE[k].count = hist[k].allowedCalls
    /\ DOMAIN hist = DOMAIN RATE_LIMIT_STORE
    /\ \A r \in Reqs :
           req[r].pc \in {"idle", "match", "fetch", "text", "put", "done", "threw"}

\* C18 witness: two requests of one client are suspended in handleFetch
\* together and the client's counter has counted both.
C18_Witness ==
    /\ \A r \in Reqs : InFlight(r)
    /\ started = 2
    /\ \E k \in DOMAIN RATE_LIMIT_STORE :
           /\ DOMAIN RATE_LIMIT_STORE = {k}
           /\ RATE_LIMIT_STORE[k].count = 2
           /\ hist[k].allowedCalls = 2

(***************************************************************************)
(* Properties of the counter table under any clock.                        *)
(***************************************************************************)
\* an entry stays, and its windowStart does not go down
EntriesKept ==
    \A k \in DOMAIN RATE_LIMIT_STORE :
        /\ k \in DOMAIN RATE_LIMIT_STORE'
        /\ RATE_LIMIT_STORE'[k].windowStartMs >= RATE_LIMIT_STORE[k].windowStartMs

\* C19: whatever the clock reads from one call to the next, a clock going
\* back included, every entry of the counter table has count >= 1, the
\* windowStart of a key never decreases and a key is never removed.
C19_TableMonotone ==
    /\ [](\A k \in DOMAIN RATE_LIMIT_STORE : RATE_LIMIT_STORE[k].count >= 1)
    /\ [][EntriesKept]_vars

\* C19 witness: a call made while the clock reads less than the windowStart
\* of its key is counted in that window, which keeps its start.
C19_Witness ==
    /\ last.called /\ last.hadEntry /\ last.allowed
    /\ last.at < Val(last.prevEntry).windowStartMs
    /\ RATE_LIMIT_STORE[last.key] =
           [windowStartMs |-> Val(last.prevEntry).windowStartMs,
            count |-> Val(last.prevEntry).count + 1]

\* request r has looked the target up and found no entry
ObservedMiss(r) == "start" \in DOMAIN req[r]

\* the origin fetches request r has made, the one in flight included
FetchesOf(r) ==
    IF req[r] = Idle \/ "io" \notin DOMAIN req[r] THEN 0
    ELSE Uses(req[r].io, "fetch") + (IF req[r].pc = "fetch" THEN 1 ELSE 0)

\* C20 in a state: what each request has done
OneFetchOneStore(r) ==
    (req[r] # Idle) =>
        /\ FetchesOf(r) <= 1
        /\ Uses(req[r].io, "put") <= 1
        /\ FetchesOf(r) = IF ObservedMiss(r) THEN 1 ELSE 0
        /\ Uses(req[r].io, "put") = 1 =>
               /\ "upstream" \in DOMAIN req[r]
               /\ "failed" \notin DOMAIN req[r]
               /\ \E i, j \in 1..Len(req[r].io) :
                      i < j /\ req[r].io[i] = "fetch" /\ req[r].io[j] = "put"

\* C20 on one step: a lookup that finds no entry starts a fetch of its own,
\* whatever the other requests are doing
NotCoalesced(r) ==
    (/\ req[r].pc = "match"
     /\ req'[r].pc \notin {"match", "threw"}
     /\ req[r].targetUrl \notin DOMAIN cache) =>
        /\ req'[r].pc = "fetch"
        /\ "start" \in DOMAIN req'[r]

\* C20 on one step: a store puts the storing request's response in the
\* cache, over whatever another request stored before
LatestStoreWins(r) ==
    (req[r].pc = "put" /\ req'[r].pc = "done") =>
        /\ cache' = MapSet(cache, req[r].targetUrl, req'[r].resp)
        /\ IsMissResponse(req'[r].resp)
        /\ req'[r].resp.body.targetUrl = req[r].targetUrl

\* C20: under any interleaving of requests for the same target, each makes
\* at most one origin fetch and one cache store, its store after its own
\* successful fetch; an entry of the cache is the complete 200 MISS response
\* returned by the request that stored last; requests that both find no
\* entry both fetch, so there are as many fetches as observed misses.
C20_Interleavings ==
    /\ [](\A r \in Reqs : OneFetchOneStore(r))
    /\ [][/\ \A r \in Reqs : NotCoalesced(r) /\ LatestStoreWins(r)
          /\ \A u \in DOMAIN cache' :
                 (u \notin DOMAIN cache \/ cache'[u] # cache[u]) =>
                     \E r \in Reqs :
                         /\ req[r].pc = "put" /\ req[r].targetUrl = u
                         /\ req'[r].pc = "done"
                         /\ cache'[u] = req'[r].resp]_vars

\* C20 witness: two requests for one target both found no entry and both
\* fetched; the second to store replaced the other's entry with its own
\* response, a different one.
C20_Witness ==
    \E r \in Reqs :
        /\ req[r].pc = "done"
        /\ req[r].io \in MissPathIo
        /\ req[r].targetUrl \in DOMAIN req[r].cacheWas
        /\ req[r].cacheWas[req[r].targetUrl] # req[r].resp
        /\ cache[req[r].targetUrl] = req[r].resp
        /\ started = 2

(***************************************************************************)
(* C21: the router counts before it handles.                               *)
(***************************************************************************)
\* request slot r takes a GET /fetch request in this step
Arrives(r) == req[r] = Idle /\ req'[r] # Idle

\* the requests of key k counted in its current window of the router
UnitsUsed(store, k) ==
    IF k \in DOMAIN store
          /\ now - store[k].windowStartMs < RouterWindowSeconds * MsPerSecond
    THEN store[k].count
    ELSE 0

\* the arriving request was rejected with 429 before any other work
RejectedUntouched(q) ==
    /\ q.pc = "done"
    /\ q.io = <<>>
    /\ q.resp.status = StatusRateLimited
    /\ q.resp.body.error = "rate_limited"
    /\ cache' = cache

\* the arriving request took one unit of its client's quota
ConsumedOne(q) ==
    /\ q.key = clientKey(q.request)
    /\ q.key \in DOMAIN RATE_LIMIT_STORE'
    /\ RATE_LIMIT_STORE'[q.key].count = UnitsUsed(RATE_LIMIT_STORE, q.key) + 1

C21_Step ==
    /\ \A r \in Reqs :
           Arrives(r) =>
               IF req'[r].limited
               THEN RejectedUntouched(req'[r])
               ELSE IF req'[r].pc = "done"
               THEN ConsumedOne(req'[r])
               ELSE /\ req'[r].key \in DOMAIN RATE_LIMIT_STORE'
                    /\ RATE_LIMIT_STORE'[req'[r].key].count
                           = UnitsUsed(RATE_LIMIT_STORE, req'[r].key) + 1
    /\ (\A r \in Reqs : ~Arrives(r)) => RATE_LIMIT_STORE' = RATE_LIMIT_STORE

\* C21: every GET /fetch request that is not answered 429 takes one unit of
\* its client's quota on arrival, whether it then ends in bad_request,
\* blocked_target, an upstream failure, a cache hit or a miss; a request
\* answered 429 has validated no target and made no cache lookup, origin
\* fetch or cache store; and no other step, a request to another route
\* included, changes the counter table.
C21_CountBeforeHandle == [][C21_Step]_vars

\* C21 witness: with the same client at quota 19 of 20, a request with an
\* invalid target was counted and answered bad_request, and the next one,
\* its target invalid too, was answered 429 without any I/O, the table
\* holding 20 for that client
C21_Witness ==
    \E r \in Reqs :
        /\ Settled(r)
        /\ req[r].limited
        /\ req[r].io = <<>>
        /\ IsNull(ValidatedTargets[req[r].target])
        /\ prev # Idle
        /\ prev.class = "bad-request"
        /\ RATE_LIMIT_STORE[req[r].key].count = RouterMaxRequests

(***************************************************************************)
(* C22: what a call of checkRateLimit may change in the counter table.     *)
(***************************************************************************)
\* the entries of every key but k are the same before and after the step
OthersKept(k) ==
    /\ DOMAIN RATE_LIMIT_STORE' \ {k} = DOMAIN RATE_LIMIT_STORE \ {k}
    /\ \A j \in DOMAIN RATE_LIMIT_STORE \ {k} :
           RATE_LIMIT_STORE'[j] = RATE_LIMIT_STORE[j]

\* a step that is a call of checkRateLimit (the clock stands still in it)
C22_Step ==
    (now' = now /\ last'.called) =>
        /\ OthersKept(last'.key)
        /\ ~last'.allowed => RATE_LIMIT_STORE' = RATE_LIMIT_STORE

\* C22: a call of checkRateLimit for key k leaves the entry of every other
\* key as it was, and a rejected call leaves the whole table as it was:
\* neither count nor windowStartMs of k moves.
C22_Frame == [][C22_Step]_vars

\* C22 witness: two clients have entries, and the call just made for one of
\* them was rejected
C22_Witness ==
    /\ last.called
    /\ ~last.allowed
    /\ last.at = now
    /\ last.at > Val(last.prevEntry).windowStartMs
    /\ \E j \in DOMAIN RATE_LIMIT_STORE : j # last.key

(***************************************************************************)
(* C23: the range of retryAfterSeconds.                                    *)
(***************************************************************************)
\* C23: under a clock that never goes back and with windowSeconds >= 1, a
\* rejected call returns a retryAfterSeconds from 1 to windowSeconds, which
\* is also what the 429 response carries, and an allowed call returns 0.
C23_RetryRange ==
    (last.called /\ last.windowSeconds >= 1) =>
        IF last.allowed
        THEN last.retryAfterSeconds = 0
        ELSE /\ last.retryAfterSeconds >= 1
             /\ last.retryAfterSeconds <= last.windowSeconds
             /\ rateLimitedResponse(last.retryAfterSeconds).body.retryAfterSeconds
                    \in 1..last.windowSeconds

\* C23 witness: a call rejected half a second before the end of a window of
\* two seconds is told to retry after 1 second
C23_Witness ==
    /\ last.called
    /\ ~last.allowed
    /\ last.windowSeconds = 2
    /\ LastRemainingMs < MsPerSecond
    /\ last.retryAfterSeconds = 1
====
